---- MODULE Spec2Model ----
(***************************************************************************)
(* A model of the repository composition and resolution engine of          *)
(* lsst.daf.persistence: the Repository node, its two traversal            *)
(* primitives (doParents, doSelfAndPeers), the operations built from them, *)
(* and the RepositoryCfg descriptor round trip.                            *)
(***************************************************************************)
EXTENDS Integers, Sequences, FiniteSets, TLC

VARIABLES
    parents,     \* Repository._parents: repository -> ordered sequence of repositories
    peers,       \* Repository._peers: repository -> ordered sequence of repositories
    parentJoin,  \* Repository._parentJoin: repository -> join-mode string
    mapper,      \* Repository._mapper: repository -> the mapper it holds, or NoMapper
    files,       \* the file system below the repository roots: root -> dataId -> content
    call         \* the last client call: its arguments, what it returned, what it evaluated

vars == <<parents, peers, parentJoin, mapper, files, call>>

----------------------------------------------------------------------------
(* Bounds of the model *)

NRepos == 3
MaxParents == 2
MaxPeers == 2
MaxNoMapper == 1

Repo == 1..NRepos

\* The repository a client (a Butler) holds: the graph is materialized from
\* its configuration, so every other repository is reached from it.
TopRepo == CHOOSE r \in Repo : \A s \in Repo : r <= s

----------------------------------------------------------------------------
(* Values *)

\* Python's None.
None == [tag |-> "None"]

\* An object that is not a sequence: `ret.extend(res)` raises TypeError on it.
Item(r, k) == [tag |-> "item", id |-> r, k |-> k]

\* A python list.
List(s) == [tag |-> "list", items |-> s]

\* `ret.extend(res)` succeeds exactly on iterables.
IsIterable(v) == v.tag = "list"

\* A python str: its text, and whether it is the interned object that a
\* literal of the same text in the program denotes.  A str built at run time
\* (read from a YAML document, concatenated, decoded) is equal to the literal
\* but is not the same object.
Str(text, interned) == [text |-> text, interned |-> interned]

\* `a is 'literal'`: object identity with the interned literal.
IsLiteral(s, text) == s.text = text /\ s.interned

\* `a == 'literal'`, `a in (...)`: equality of text.
EqLiteral(s, text) == s.text = text

_supportedParentJoin == {"left", "outer"}

\* The join-mode strings a Repository can have been constructed with: the
\* constructor accepts whatever is == to a supported name.  (A non-interned
\* 'outer' behaves as the literal does and is left out.)
JoinModes == {Str("left", TRUE), Str("left", FALSE), Str("outer", TRUE)}

----------------------------------------------------------------------------
(* Repository graphs *)

\* Sequences over S of length at most n without repetition.
SeqsNoDup(S, n) ==
    UNION {{s \in [1..k -> S] : \A i, j \in 1..k : i # j => s[i] # s[j]} : k \in 0..n}

\* Edge assignments for repositories 1..r: each repository's sequence names
\* only repositories declared after it, which keeps the graph acyclic.
RECURSIVE EdgeFns(_, _)
EdgeFns(r, n) ==
    IF r = 0 THEN {<<>>}
    ELSE {Append(f, s) : f \in EdgeFns(r - 1, n), s \in SeqsNoDup((r + 1)..NRepos, n)}

Range(s) == {s[i] : i \in 1..Len(s)}

\* Repositories reachable from the top repository over parent and peer edges.
RECURSIVE ReachFrom(_, _, _)
ReachFrom(S, pa, pe) ==
    LET T == S \cup UNION {Range(pa[r]) \cup Range(pe[r]) : r \in S}
    IN IF T = S THEN S ELSE ReachFrom(T, pa, pe)

----------------------------------------------------------------------------
(* Recursion support: Repository.doSelfAndPeers and Repository.doParents *)

\* What a func evaluated on one repository can do: return None, return a
\* value, or raise.
Raised == [tag |-> "raise"]

\* A slip: an error of func taken for one more result.
Raises_Never(res) == FALSE

\* `res = func(...)` is in no try block: an error of func leaves the frame of
\* the traversal, and of every traversal that called it.
Raises(res) == res = Raised

\* One evaluation of func: the repository it was evaluated on, the chain of
\* repositories from the one the traversal started at down to it, and the kind
\* of edge it was reached over.
Event(path, via) == [repo |-> path[Len(path)], path |-> path, via |-> via]

\* A slip: a sequence result appended whole instead of flattened.
Accumulate_NoFlatten(ret, res) == IF res = None THEN ret ELSE Append(ret, res)

\* if res is a list, extend ret. else append ret.
Accumulate(ret, res) ==
    IF res = None THEN ret
    ELSE IF IsIterable(res) THEN ret \o res.items
    ELSE Append(ret, res)

\* A slip: the empty list returned as it is.
NoneIfEmpty_KeepsEmpty(ret) == List(ret)

\* `if len(ret) is 0: ret = None`
NoneIfEmpty(ret) == IF Len(ret) = 0 THEN None ELSE List(ret)

\* A slip: the fan-out stops at the first peer that yields a result.
RECURSIVE doPeersLoop_ShortCircuit(_, _, _, _, _)
doPeersLoop_ShortCircuit(self, i, ret, ev, f) ==
    IF i > Len(peers[self]) THEN [ret |-> NoneIfEmpty(ret), ev |-> ev]
    ELSE LET peer == peers[self][i]
             res == f[peer]
             ev1 == Append(ev, Event(<<self, peer>>, "peer"))
         IN IF Raises(res) THEN [ret |-> Raised, ev |-> ev1]
            ELSE IF res # None THEN [ret |-> NoneIfEmpty(Accumulate(ret, res)), ev |-> ev1]
            ELSE doPeersLoop_ShortCircuit(self, i + 1, ret, ev1, f)

\* The loop over self._peers of doSelfAndPeers, from the i-th peer on.
RECURSIVE doPeersLoop(_, _, _, _, _)
doPeersLoop(self, i, ret, ev, f) ==
    IF i > Len(peers[self]) THEN [ret |-> NoneIfEmpty(ret), ev |-> ev]
    ELSE LET peer == peers[self][i]
             res == f[peer]
             ev1 == Append(ev, Event(<<self, peer>>, "peer"))
         IN IF Raises(res) THEN [ret |-> Raised, ev |-> ev1]
            ELSE doPeersLoop(self, i + 1, Accumulate(ret, res), ev1, f)

\* A slip: func on self only, the peers left out.
doSelfAndPeers_SelfOnly(self, f) ==
    LET res == f[self]
        ev1 == <<Event(<<self>>, "self")>>
    IN IF Raises(res) THEN [ret |-> Raised, ev |-> ev1]
       ELSE [ret |-> NoneIfEmpty(Accumulate(<<>>, res)), ev |-> ev1]

\* Repository.doSelfAndPeers(func): func on self, then on each peer.
doSelfAndPeers(self, f) ==
    LET res == f[self]
        ev1 == <<Event(<<self>>, "self")>>
    IN IF Raises(res) THEN [ret |-> Raised, ev |-> ev1]
       ELSE doPeersLoop(self, 1, Accumulate(<<>>, res), ev1, f)

\* A slip: the parents of a parent searched whatever func found on it.
SearchesAncestors_Always(res) == TRUE

\* `if res is None: res = parent.doParents(func, ...)`: the parents of a parent
\* are searched only when func found nothing on the parent itself.
SearchesAncestors(res) == res = None

\* A slip: the first result returned under every join mode.
ReturnsFirst_Always(join) == TRUE

\* A slip: the test inverted, `is not 'left'`.
ReturnsFirst_Inverted(join) == ~IsLiteral(join, "left")

\* `if self._parentJoin is 'left': return res`: identity with the literal.
ReturnsFirst(join) == IsLiteral(join, "left")

\* A slip: a repository that was evaluated once is not evaluated again.
RECURSIVE doParentsLoop_SkipsVisited(_, _, _, _, _, _)
doParentsLoop_SkipsVisited(self, path, i, ret, ev, f) ==
    IF i > Len(parents[self]) THEN [ret |-> NoneIfEmpty(ret), ev |-> ev]
    ELSE LET parent == parents[self][i]
             ppath == Append(path, parent)
             res0 == f[parent]
             ev1 == Append(ev, Event(ppath, "parent"))
             sub == IF SearchesAncestors(res0)
                    THEN doParentsLoop_SkipsVisited(parent, ppath, 1, <<>>, ev1, f)
                    ELSE [ret |-> res0, ev |-> ev1]
             res == sub.ret
         IN IF \E k \in 1..Len(ev) : ev[k].repo = parent
            THEN doParentsLoop_SkipsVisited(self, path, i + 1, ret, ev, f)
            ELSE IF Raises(res) THEN sub
            ELSE IF res # None
            THEN IF ReturnsFirst(parentJoin[self])
                 THEN sub
                 ELSE doParentsLoop_SkipsVisited(self, path, i + 1, Append(ret, res), sub.ev, f)
            ELSE doParentsLoop_SkipsVisited(self, path, i + 1, ret, sub.ev, f)

\* A slip: the parents tried from the last declared one to the first.
RECURSIVE doParentsLoop_LastFirst(_, _, _, _, _, _)
doParentsLoop_LastFirst(self, path, i, ret, ev, f) ==
    IF i > Len(parents[self]) THEN [ret |-> NoneIfEmpty(ret), ev |-> ev]
    ELSE LET parent == parents[self][Len(parents[self]) + 1 - i]
             ppath == Append(path, parent)
             res0 == f[parent]
             ev1 == Append(ev, Event(ppath, "parent"))
             sub == IF SearchesAncestors(res0)
                    THEN doParentsLoop_LastFirst(parent, ppath, 1, <<>>, ev1, f)
                    ELSE [ret |-> res0, ev |-> ev1]
             res == sub.ret
         IN IF Raises(res) THEN sub
            ELSE IF res # None
            THEN IF ReturnsFirst(parentJoin[self])
                 THEN sub
                 ELSE doParentsLoop_LastFirst(self, path, i + 1, Append(ret, res), sub.ev, f)
            ELSE doParentsLoop_LastFirst(self, path, i + 1, ret, sub.ev, f)

\* The loop over self._parents of doParents, from the i-th parent on; path is
\* the chain of repositories the search descended through to reach self.
RECURSIVE doParentsLoop(_, _, _, _, _, _)
doParentsLoop(self, path, i, ret, ev, f) ==
    IF i > Len(parents[self]) THEN [ret |-> NoneIfEmpty(ret), ev |-> ev]
    ELSE LET parent == parents[self][i]
             ppath == Append(path, parent)
             res0 == f[parent]
             ev1 == Append(ev, Event(ppath, "parent"))
             sub == IF SearchesAncestors(res0)
                    THEN doParentsLoop(parent, ppath, 1, <<>>, ev1, f)
                    ELSE [ret |-> res0, ev |-> ev1]
             res == sub.ret
         IN IF Raises(res) THEN sub
            ELSE IF res # None
            THEN IF ReturnsFirst(parentJoin[self])
                 THEN sub
                 ELSE doParentsLoop(self, path, i + 1, Append(ret, res), sub.ev, f)
            ELSE doParentsLoop(self, path, i + 1, ret, sub.ev, f)

\* A slip: the search tries the repository itself before its parents.
doParents_SelfFirst(self, f) ==
    IF f[self] # None
    THEN [ret |-> f[self], ev |-> <<Event(<<self>>, "self")>>]
    ELSE doParentsLoop(self, <<self>>, 1, <<>>, <<Event(<<self>>, "self")>>, f)

\* Repository.doParents(func): depth-first search of the parents.
doParents(self, f) == doParentsLoop(self, <<self>>, 1, <<>>, <<>>, f)

----------------------------------------------------------------------------
(* Mapper access: the operations of a Repository *)

\* Repository._mapper of a repository constructed without a mapper.
NoMapper == "None"
\* A mapper object: an external collaborator, what it returns is an input.
AMapper == "Mapper"

\* A ButlerLocation as the mapper of repository r returns it: it names the
\* mapper that made it, and its repository is not set yet.
NotSet == 0
Location(r) == [tag |-> "loc", mapper |-> r, repository |-> NotSet]

\* ButlerLocation.setRepository
setRepository(loc, r) == [loc EXCEPT !.repository = r]

\* A slip: the location handed on without its repository.
doMap_NoStamp(r, m) ==
    IF mapper[r] = NoMapper THEN None ELSE m[r]

\* Repository.doMap on repository r, m[r] being what r's mapper.map returns.
doMap(r, m) ==
    IF mapper[r] = NoMapper THEN None
    ELSE LET loc == m[r]
         IN IF loc = None \/ loc = Raised THEN loc
            ELSE setRepository(loc, r)

\* Repository.doQueryMetadata on r, m[r] being what r's mapper.queryMetadata returns.
doQueryMetadata(r, m) == IF mapper[r] = NoMapper THEN None ELSE m[r]

\* Repository.doGetKeys on r, m[r] being what r's mapper.getKeys returns.
doGetKeys(r, m) == IF mapper[r] = NoMapper THEN None ELSE m[r]

\* Repository.doBackup on r: mapper.backup is called for its effect, and
\* nothing is returned (m[r] is Raised when mapper.backup raises).
doBackup(r, m) ==
    IF mapper[r] = NoMapper THEN None
    ELSE IF m[r] = Raised THEN Raised ELSE None

\* How a caller of Repository.map can pass the write flag: not at all, as
\* the keyword write=False, write=True or write=1, or as the positional
\* argument True after the dataId.
WriteArgs == {"absent", "kwFalse", "kwTrue", "kwOne", "posTrue"}

\* The value of the write parameter that mapper.map(*args, **kwargs) gets:
\* args and kwargs are passed on as they came, and write defaults to False.
WriteValue(w) ==
    CASE w = "kwTrue" -> "True"
      [] w = "posTrue" -> "True"
      [] w = "kwOne" -> "1"
      [] OTHER -> "False"

\* A slip: any write flag that counts as true selects the fan-out.
IsWriteMap_Truthy(w) == WriteValue(w) \in {"True", "1"}

\* A slip: every map treated as a mapping for a write.
IsWriteMap_Always(w) == TRUE

\* `'write' in kwargs and kwargs['write'] is True`
IsWriteMap(w) == w = "kwTrue"

\* Repository.map
RepositoryMap(self, w, m) ==
    IF IsWriteMap(w)
    THEN doSelfAndPeers(self, [r \in Repo |-> doMap(r, m)])
    ELSE doParents(self, [r \in Repo |-> doMap(r, m)])

\* Repository.queryMetadata
RepositoryQueryMetadata(self, m) == doParents(self, [r \in Repo |-> doQueryMetadata(r, m)])

\* Repository.getKeys
RepositoryGetKeys(self, m) == doParents(self, [r \in Repo |-> doGetKeys(r, m)])

\* Repository.backup: the result of doSelfAndPeers is dropped.
RepositoryBackup(self, m) ==
    LET r == doSelfAndPeers(self, [x \in Repo |-> doBackup(x, m)])
    IN [ret |-> IF r.ret = Raised THEN Raised ELSE None, ev |-> r.ev]

\* A slip: the default level searched for in the parents, as getKeys does.
RepositoryGetMapperDefaultLevel_ParentSearch(self, m) ==
    doParents(self, [r \in Repo |-> IF mapper[r] = NoMapper THEN None ELSE m[r]])

\* Repository.getMapperDefaultLevel: the default level of the mapper of this
\* repository only, m[self] being what its getDefaultLevel returns.
RepositoryGetMapperDefaultLevel(self, m) ==
    IF mapper[self] = NoMapper THEN [ret |-> None, ev |-> <<>>]
    ELSE [ret |-> m[self], ev |-> <<Event(<<self>>, "self")>>]

----------------------------------------------------------------------------
(* The state after construction *)

\* Repository.__init__'s default for parentJoin: the literal 'left'.
DefaultJoin == Str("left", TRUE)

\* The graphs materialized from one configuration: acyclic, every repository
\* reached from the top one, parents and peers in declared order.
GraphInit ==
    /\ parents \in EdgeFns(NRepos, MaxParents)
    /\ peers \in EdgeFns(NRepos, MaxPeers)
    /\ ReachFrom({TopRepo}, parents, peers) = Repo
    /\ parentJoin \in [Repo -> JoinModes]
    /\ \A r \in Repo : parents[r] = <<>> => parentJoin[r] = DefaultJoin

NoFiles == <<>>

Idle == [op |-> "none", self |-> TopRepo, w |-> "absent", m |-> <<>>,
         ret |-> None, ev |-> <<>>]

Called(op, self, w, m, r) ==
    call' = [op |-> op, self |-> self, w |-> w, m |-> m, ret |-> r.ret, ev |-> r.ev]

Init ==
    /\ GraphInit
    /\ mapper \in [Repo -> {NoMapper, AMapper}]
    /\ Cardinality({r \in Repo : mapper[r] = NoMapper}) <= MaxNoMapper
    /\ files = NoFiles
    /\ call = Idle

\* What the mappers of the repositories return in one call: v(r) or None for
\* a repository that has a mapper.
MapperReturns(v(_)) ==
    {m \in [Repo -> {None} \cup {v(r) : r \in Repo}] :
        \A r \in Repo : /\ m[r] # None => m[r] = v(r)
                        /\ mapper[r] = NoMapper => m[r] = None}

\* A dict of keys, a set of metadata tuples: opaque results of the mapper of r.
Keys(r) == Item(r, 0)
Metadata(r) == Item(r, 0)
\* The default level of the mapper of r.
Level(r) == Item(r, 0)

\* Execution is single-threaded and synchronous: the client issues one call,
\* gets its result, and only then issues the next.
Ready == call.op = "none"

map ==
    /\ Ready
    /\ \E w \in WriteArgs, m \in MapperReturns(Location) :
           Called("map", TopRepo, w, m, RepositoryMap(TopRepo, w, m))
    /\ UNCHANGED <<parents, peers, parentJoin, mapper, files>>

queryMetadata ==
    /\ Ready
    /\ \E m \in MapperReturns(Metadata) :
           Called("queryMetadata", TopRepo, "absent", m, RepositoryQueryMetadata(TopRepo, m))
    /\ UNCHANGED <<parents, peers, parentJoin, mapper, files>>

getKeys ==
    /\ Ready
    /\ \E m \in MapperReturns(Keys) :
           Called("getKeys", TopRepo, "absent", m, RepositoryGetKeys(TopRepo, m))
    /\ UNCHANGED <<parents, peers, parentJoin, mapper, files>>

backup ==
    /\ Ready
    /\ Called("backup", TopRepo, "absent", [r \in Repo |-> None],
              RepositoryBackup(TopRepo, [r \in Repo |-> None]))
    /\ UNCHANGED <<parents, peers, parentJoin, mapper, files>>

getMapperDefaultLevel ==
    /\ Ready
    /\ \E m \in MapperReturns(Level) :
           Called("getMapperDefaultLevel", TopRepo, "absent", m,
                  RepositoryGetMapperDefaultLevel(TopRepo, m))
    /\ UNCHANGED <<parents, peers, parentJoin, mapper, files>>

\* The client takes the result of its call.
return ==
    /\ ~Ready
    /\ call' = Idle
    /\ UNCHANGED <<parents, peers, parentJoin, mapper, files>>

Next == map \/ queryMetadata \/ getKeys \/ backup \/ getMapperDefaultLevel \/ return

Spec == Init /\ [][Next]_vars

----------------------------------------------------------------------------
(* The traversal primitives called with an arbitrary func *)

ListLen == 3

\* What an arbitrary func can return on repository r: None, an object that
\* is not a sequence, a sequence of ListLen objects, an empty sequence.
FuncResults(r) ==
    {None, Item(r, 0), List([k \in 1..ListLen |-> Item(r, k)]), List(<<>>)}

Funcs == {f \in [Repo -> UNION {FuncResults(r) : r \in Repo}] :
             \A r \in Repo : f[r] \in FuncResults(r)}

InitEngine ==
    /\ GraphInit
    /\ mapper = [r \in Repo |-> AMapper]
    /\ files = NoFiles
    /\ call = Idle

doParentsCall ==
    /\ Ready
    /\ \E f \in Funcs : Called("doParents", TopRepo, "absent", f, doParents(TopRepo, f))
    /\ UNCHANGED <<parents, peers, parentJoin, mapper, files>>

doSelfAndPeersCall ==
    /\ Ready
    /\ \E f \in Funcs : Called("doSelfAndPeers", TopRepo, "absent", f, doSelfAndPeers(TopRepo, f))
    /\ UNCHANGED <<parents, peers, parentJoin, mapper, files>>

NextEngine == doParentsCall \/ doSelfAndPeersCall \/ return

SpecEngine == InitEngine /\ [][NextEngine]_vars

----------------------------------------------------------------------------
(* The traversal primitives called with a func that can raise *)

\* What such a func does on repository r: return None, return an object, raise.
FuncOutcomes(r) == {None, Item(r, 0), Raised}

RaisingFuncs == {f \in [Repo -> UNION {FuncOutcomes(r) : r \in Repo}] :
                    \A r \in Repo : f[r] \in FuncOutcomes(r)}

InitRaise ==
    /\ GraphInit
    /\ mapper = [r \in Repo |-> AMapper]
    /\ files = NoFiles
    /\ call = Idle

doParentsRaising ==
    /\ Ready
    /\ \E f \in RaisingFuncs : Called("doParents", TopRepo, "absent", f, doParents(TopRepo, f))
    /\ UNCHANGED <<parents, peers, parentJoin, mapper, files>>

doSelfAndPeersRaising ==
    /\ Ready
    /\ \E f \in RaisingFuncs :
          Called("doSelfAndPeers", TopRepo, "absent", f, doSelfAndPeers(TopRepo, f))
    /\ UNCHANGED <<parents, peers, parentJoin, mapper, files>>

NextRaise == doParentsRaising \/ doSelfAndPeersRaising \/ return

SpecRaise == InitRaise /\ [][NextRaise]_vars

----------------------------------------------------------------------------
(* Parent search over graphs with a shared ancestor *)

NShared == 4

\* A top repository, middle repositories, and one repository that any of
\* the middle ones can have as its parent.
SharedRepo == 1..NShared
Middle == 2..(NShared - 1)

SharedFuncs == [SharedRepo -> {None}] \cup
               {f \in [SharedRepo -> {None} \cup {Item(r, 0) : r \in SharedRepo}] :
                   \A r \in SharedRepo : f[r] \in {None, Item(r, 0)}}

InitShared ==
    /\ parents \in [SharedRepo -> SeqsNoDup(SharedRepo, MaxParents)]
    /\ Range(parents[1]) \subseteq Middle
    /\ \A r \in Middle : Range(parents[r]) \subseteq {NShared}
    /\ parents[NShared] = <<>>
    /\ peers = [r \in SharedRepo |-> <<>>]
    /\ parentJoin \in [SharedRepo -> JoinModes]
    /\ \A r \in SharedRepo : parents[r] = <<>> => parentJoin[r] = DefaultJoin
    /\ mapper = [r \in SharedRepo |-> AMapper]
    /\ files = NoFiles
    /\ call = Idle

doParentsShared ==
    /\ Ready
    /\ \E f \in SharedFuncs : Called("doParents", 1, "absent", f, doParents(1, f))
    /\ UNCHANGED <<parents, peers, parentJoin, mapper, files>>

NextShared == doParentsShared \/ return

SpecShared == InitShared /\ [][NextShared]_vars

----------------------------------------------------------------------------
(* A Butler over repositories on a file system, with the mapper of the tests *)

NDataIds == 1
MaxVal == 2

DataIds == 1..NDataIds

\* A dataset object (TestObject): its data.
Obj(v) == [tag |-> "obj", data |-> v]
Objects == {Obj(v) : v \in 1..MaxVal}

\* MapperForTestWriting, the mapper the repositories of the tests hold.
MapperForTestWriting == "MapperForTestWriting"

\* os.path.exists(path) for the file of dataId d under the root of repository r.
Exists(r, d) == files[r][d] # None

\* The ButlerLocation MapperForTestWriting.map_foo builds: PickleStorage, one
\* location, the file of the dataId under the mapper's root.
FileLocation(r, d) ==
    [tag |-> "loc", mapper |-> r, repository |-> NotSet, root |-> r, dataId |-> d]

\* MapperForTestWriting.map_foo(dataId, write) of the mapper of repository r.
map_foo(r, d, write) ==
    IF ~write /\ ~Exists(r, d) THEN None ELSE FileLocation(r, d)

\* `not write` in map_foo is false for True and for 1.
WriteFlag(w) == WriteValue(w) \in {"True", "1"}

\* What each repository's mapper returns for map(datasetType, dataId, write).
MapperOutcomes(d, w) ==
    [r \in Repo |-> IF mapper[r] = NoMapper THEN None ELSE map_foo(r, d, WriteFlag(w))]

\* PosixStorage.write, PickleStorage: the object is dumped to locations[0].
StorageWrite(fs, loc, obj) == [fs EXCEPT ![loc.root][loc.dataId] = obj]

\* PosixStorage.read, PickleStorage: raises when the file does not exist.
StorageRead(loc) ==
    IF Exists(loc.root, loc.dataId) THEN files[loc.root][loc.dataId] ELSE Raised

\* Butler.put writes the object through the repository of every location that
\* map(write=True) returned.
RECURSIVE WriteAll(_, _, _)
WriteAll(fs, locs, obj) ==
    IF locs = <<>> THEN fs
    ELSE WriteAll(StorageWrite(fs, locs[1], obj), Tail(locs), obj)

NoResults == [tag |-> "NoResults"]
MultipleResults(locations) == [tag |-> "MultipleResults", locations |-> locations]

\* Butler.get on the result of a read-mode map: no location is an error, more
\* than one location is an error that carries them, a one-element list
\* yields a one-element list, a location yields the object read.
RECURSIVE ReadLocations(_)
ReadLocations(v) ==
    IF v.tag = "list"
    THEN List([i \in 1..Len(v.items) |-> ReadLocations(v.items[i])])
    ELSE StorageRead(v)

ButlerGet(mapped) ==
    IF mapped = None THEN NoResults
    ELSE IF mapped.tag = "list" /\ Len(mapped.items) > 1 THEN MultipleResults(mapped.items)
    ELSE ReadLocations(mapped)

\* The repository a Butler constructs from {'repository': Repository,
\* 'parents': cfg}: not one of the graph, written 0 in the paths of events.
\* It has no mapper, no peers, the default join and the single parent X, so
\* its doParents is one turn of the loop.
FreshRepo == 0

FreshReaderSearch(X, f) ==
    LET res0 == f[X]
        ev1 == <<[repo |-> X, path |-> <<FreshRepo, X>>, via |-> "parent"]>>
        sub == IF SearchesAncestors(res0)
               THEN doParentsLoop(X, <<FreshRepo, X>>, 1, <<>>, ev1, f)
               ELSE [ret |-> res0, ev |-> ev1]
    IN IF sub.ret = Raised THEN sub
       ELSE IF sub.ret # None
       THEN IF ReturnsFirst(DefaultJoin) THEN sub
            ELSE [ret |-> NoneIfEmpty(<<sub.ret>>), ev |-> sub.ev]
       ELSE [ret |-> NoneIfEmpty(<<>>), ev |-> sub.ev]

InitButler ==
    /\ GraphInit
    /\ mapper = [r \in Repo |-> MapperForTestWriting]
    /\ files = [r \in Repo |-> [d \in DataIds |-> None]]
    /\ call = Idle

ButlerCalled(op, self, d, obj, w, mapped, result) ==
    call' = [op |-> op, self |-> self, d |-> d, obj |-> obj, w |-> w,
             m |-> MapperOutcomes(d, w), mapped |-> mapped.ret, ev |-> mapped.ev,
             ret |-> result]

\* Butler.put(obj, datasetType, dataId) of a Butler that holds repository self.
put ==
    /\ Ready
    /\ \E self \in Repo, d \in DataIds, obj \in Objects :
          LET mapped == RepositoryMap(self, "kwTrue", MapperOutcomes(d, "kwTrue"))
          IN /\ files' = IF mapped.ret = None THEN files
                         ELSE WriteAll(files, mapped.ret.items, obj)
             /\ ButlerCalled("put", self, d, obj, "kwTrue", mapped, None)
    /\ UNCHANGED <<parents, peers, parentJoin, mapper>>

\* Butler.get(datasetType, dataId) of a Butler that holds repository self.
get ==
    /\ Ready
    /\ \E self \in Repo, d \in DataIds :
          LET mapped == RepositoryMap(self, "absent", MapperOutcomes(d, "absent"))
          IN ButlerCalled("get", self, d, None, "absent", mapped, ButlerGet(mapped.ret))
    /\ UNCHANGED <<parents, peers, parentJoin, mapper, files>>

\* Repository.map(datasetType, dataId, ...) called on repository self with the
\* write flag passed in any of the ways of WriteArgs.
mapCall ==
    /\ Ready
    /\ \E self \in Repo, d \in DataIds, w \in WriteArgs :
          LET mapped == RepositoryMap(self, w, MapperOutcomes(d, w))
          IN ButlerCalled("map", self, d, None, w, mapped, mapped.ret)
    /\ UNCHANGED <<parents, peers, parentJoin, mapper, files>>

\* Butler.get of a new Butler({'repository': Repository, 'parents': X}).
getFresh ==
    /\ Ready
    /\ \E X \in Repo, d \in DataIds :
          LET f == [r \in Repo |-> doMap(r, MapperOutcomes(d, "absent"))]
              mapped == FreshReaderSearch(X, f)
          IN ButlerCalled("getFresh", X, d, None, "absent", mapped, ButlerGet(mapped.ret))
    /\ UNCHANGED <<parents, peers, parentJoin, mapper, files>>

\* Access.write and Access.read of the access handle of repository a: the
\* handle passes the location to its storage.
AccessWrite(a, fs, loc, obj) == StorageWrite(fs, loc, obj)
AccessRead(a, loc) ==
    IF StorageRead(loc) = Raised THEN Raised ELSE List(<<StorageRead(loc)>>)

\* The location map(write=True) of repository r itself yields for dataId d,
\* which is what a Butler hands to r.write and r.read.
OwnLocation(r, d) == setRepository(FileLocation(r, d), r)

\* A slip: the write repeated through the access handle of every peer.
RECURSIVE WriteToPeers(_, _, _, _, _)
WriteToPeers(fs, self, i, loc, obj) ==
    IF i > Len(peers[self]) THEN fs
    ELSE WriteToPeers(AccessWrite(peers[self][i], fs, OwnLocation(peers[self][i], loc.dataId), obj),
                      self, i + 1, loc, obj)

RepositoryWrite_FanOut(fs, self, loc, obj) ==
    [fs |-> WriteToPeers(AccessWrite(self, fs, loc, obj), self, 1, loc, obj),
     ev |-> <<Event(<<self>>, "access")>>]

\* Repository.write: `return self._access.write(butlerLocation, obj)`
RepositoryWrite(fs, self, loc, obj) ==
    [fs |-> AccessWrite(self, fs, loc, obj), ev |-> <<Event(<<self>>, "access")>>]

\* A slip: a dataset that is not in the repository read from its first parent.
RepositoryRead_ParentFallback(self, loc) ==
    IF AccessRead(self, loc) = Raised /\ parents[self] # <<>>
    THEN [ret |-> AccessRead(parents[self][1], OwnLocation(parents[self][1], loc.dataId)),
          ev |-> <<Event(<<self>>, "access"), Event(<<self, parents[self][1]>>, "access")>>]
    ELSE [ret |-> AccessRead(self, loc), ev |-> <<Event(<<self>>, "access")>>]

\* Repository.read: `return self._access.read(butlerLocation)`
RepositoryRead(self, loc) ==
    [ret |-> AccessRead(self, loc), ev |-> <<Event(<<self>>, "access")>>]

\* Repository.write(butlerLocation, obj) on repository self.
write ==
    /\ Ready
    /\ \E self \in Repo, d \in DataIds, obj \in Objects :
          LET r == RepositoryWrite(files, self, OwnLocation(self, d), obj)
          IN /\ files' = r.fs
             /\ ButlerCalled("write", self, d, obj, "kwTrue",
                             [ret |-> OwnLocation(self, d), ev |-> r.ev], None)
    /\ UNCHANGED <<parents, peers, parentJoin, mapper>>

\* Repository.read(butlerLocation) on repository self.
read ==
    /\ Ready
    /\ \E self \in Repo, d \in DataIds :
          LET r == RepositoryRead(self, OwnLocation(self, d))
          IN ButlerCalled("read", self, d, None, "absent",
                          [ret |-> OwnLocation(self, d), ev |-> r.ev], r.ret)
    /\ UNCHANGED <<parents, peers, parentJoin, mapper, files>>

NextButler == put \/ get \/ getFresh \/ mapCall \/ write \/ read \/ return

SpecButler == InitButler /\ [][NextButler]_vars

----------------------------------------------------------------------------
(* RepositoryCfg.butlerWrite and butlerRead over a posix file system *)

MaxPathLen == 4
MaxLocations == 1
MaxFiles == 2

\* Path strings, character by character.
PathChars == {"/", "a"}
Paths == UNION {[1..n -> PathChars] : n \in 0..MaxPathLen}

\* str.rfind('/') + 1
LastSlash(p) ==
    IF \E k \in 1..Len(p) : p[k] = "/"
    THEN CHOOSE k \in 1..Len(p) : p[k] = "/" /\ \A j \in (k + 1)..Len(p) : p[j] # "/"
    ELSE 0

\* str.rstrip('/')
RECURSIVE rstrip(_)
rstrip(s) ==
    IF s # <<>> /\ s[Len(s)] = "/" THEN rstrip(SubSeq(s, 1, Len(s) - 1)) ELSE s

\* os.path.dirname (posixpath): the head up to the last slash, its trailing
\* slashes stripped unless it is slashes only.
dirname(p) ==
    LET head == SubSeq(p, 1, LastSlash(p))
    IN IF head # <<>> /\ (\E k \in 1..Len(head) : head[k] # "/") THEN rstrip(head) ELSE head

\* The names between the slashes of a path, as the kernel walks them.
RECURSIVE Components(_)
Components(p) ==
    IF p = <<>> THEN <<>>
    ELSE IF p[1] = "/" THEN Components(Tail(p))
    ELSE LET n == IF \E k \in 1..Len(p) : p[k] = "/"
                  THEN (CHOOSE k \in 1..Len(p) : p[k] = "/" /\ \A j \in 1..(k - 1) : p[j] # "/") - 1
                  ELSE Len(p)
         IN <<SubSeq(p, 1, n)>> \o Components(SubSeq(p, n + 1, Len(p)))

\* The node of the file system a path names: from / or from the working directory.
Node(p) == [abs |-> p # <<>> /\ p[1] = "/", comps |-> Components(p)]

ParentNode(n) == [n EXCEPT !.comps = SubSeq(n.comps, 1, Len(n.comps) - 1)]

\* A node and the nodes above it.
Prefixes(n) == {[abs |-> n.abs, comps |-> SubSeq(n.comps, 1, k)] : k \in 0..Len(n.comps)}

\* The file system at start: / and the working directory, no file.
EmptyDisk ==
    [dirs |-> {Node(<<"/">>), Node(<<>>)}, content |-> <<>>]

IsDir(fs, p) == p # <<>> /\ Node(p) \in fs.dirs
IsFile(fs, p) == p # <<>> /\ p[Len(p)] # "/" /\ Node(p) \in DOMAIN fs.content

\* os.path.exists
path_exists(fs, p) == IsDir(fs, p) \/ IsFile(fs, p)

OSError == [tag |-> "raise", type |-> "OSError"]
IOError == [tag |-> "raise", type |-> "IOError"]
NotImplementedError == [tag |-> "raise", type |-> "NotImplementedError"]

\* os.makedirs of a path that does not exist: the directory and the missing
\* ones above it are made; it fails on the empty path and below a file.
makedirs(fs, p) ==
    IF p = <<>> \/ (\E n \in Prefixes(Node(p)) : n \in DOMAIN fs.content)
    THEN [ok |-> FALSE, fs |-> fs]
    ELSE [ok |-> TRUE, fs |-> [fs EXCEPT !.dirs = @ \cup Prefixes(Node(p))]]

\* open(path, 'w') succeeds on a file name in an existing directory.
CanOpenForWrite(fs, p) ==
    /\ p # <<>>
    /\ p[Len(p)] # "/"
    /\ Node(p) \notin fs.dirs
    /\ ParentNode(Node(p)) \in fs.dirs

\* LogicalLocation(location, additionalData).locString() of a location
\* string that holds no %(key) pattern.
locString(location) == location

\* Values of a cfg: classes, strings, strings that are paths.
Class(name) == [name |-> name]
PathStr(p, interned) == [chars |-> p, interned |-> interned]

\* yaml.dump and yaml.load of a value: a class is written by name and loaded
\* as the same class, a string is written by its characters and loaded as a
\* new string object.
YamlScalar(v) ==
    IF "name" \in DOMAIN v THEN [class |-> v.name]
    ELSE IF "chars" \in DOMAIN v THEN [chars |-> v.chars]
    ELSE [text |-> v.text]

YamlValue(y) ==
    IF "class" \in DOMAIN y THEN Class(y.class)
    ELSE IF "chars" \in DOMAIN y THEN PathStr(y.chars, FALSE)
    ELSE Str(y.text, FALSE)

YamlDump(cfg) == [k \in DOMAIN cfg |-> YamlScalar(cfg[k])]
YamlLoad(doc) == [k \in DOMAIN doc |-> YamlValue(doc[k])]

\* a == b of two cfgs: same keys, equal values (equal strings need not be
\* the same object).
PyEq(a, b) ==
    /\ DOMAIN a = DOMAIN b
    /\ \A k \in DOMAIN a : YamlScalar(a[k]) = YamlScalar(b[k])

\* cfg[key] = value
SetItem(cfg, key, value) ==
    [k \in DOMAIN cfg \cup {key} |-> IF k = key THEN value ELSE cfg[k]]

\* The repository cfgs that are written: as RepoFindByDate.writeCalibs builds
\* them, without a root, and with a parentJoin or a root of their own.
Cfgs ==
    {[repository |-> Class("Repository"), storage |-> Class("PosixStorage")],
     [repository |-> Class("Repository"), storage |-> Class("PosixStorage"),
      parentJoin |-> Str("outer", TRUE)],
     [repository |-> Class("Repository"), storage |-> Class("PosixStorage"),
      root |-> PathStr(<<"a">>, TRUE)]}

\* What ButlerLocation.getStorageName() can return.
StorageNames ==
    {Str("YamlStorage", TRUE), Str("YamlStorage", FALSE), Str("PickleStorage", TRUE)}

\* What ButlerLocation.getLocations() can return.
LocationLists == UNION {[1..n -> Paths] : n \in 1..MaxLocations}

\* A slip: the directory of the location put in the document as its root.
DumpTo_WithRoot(fs, path, obj) ==
    LET n == Node(path)
        file == [doc |-> YamlDump(SetItem(obj, "root", PathStr(dirname(path), FALSE))),
                 obj |-> obj]
    IN [fs EXCEPT !.content = [m \in DOMAIN @ \cup {n} |-> IF m = n THEN file ELSE @[m]]]

\* `with open(logLoc.locString(), 'w') as f: yaml.dump(obj, f)`; the file
\* keeps, beside the document, the obj it was written from.
DumpTo(fs, path, obj) ==
    LET n == Node(path)
        file == [doc |-> YamlDump(obj), obj |-> obj]
    IN [fs EXCEPT !.content = [m \in DOMAIN @ \cup {n} |-> IF m = n THEN file ELSE @[m]]]

\* The loop of butlerWrite over the locations, from the i-th on.
RECURSIVE butlerWriteLoop(_, _, _, _)
butlerWriteLoop(fs, obj, locations, i) ==
    IF i > Len(locations) THEN [ret |-> None, fs |-> fs]
    ELSE LET path == locString(locations[i])
             dir == dirname(path)
             made == IF ~path_exists(fs, dir) THEN makedirs(fs, dir)
                     ELSE [ok |-> TRUE, fs |-> fs]
         IN IF ~made.ok THEN [ret |-> OSError, fs |-> fs]
            ELSE IF ~CanOpenForWrite(made.fs, path) THEN [ret |-> IOError, fs |-> made.fs]
            ELSE butlerWriteLoop(DumpTo(made.fs, path, obj), obj, locations, i + 1)

\* `if butlerLocation.getStorageName() is not "YamlStorage": raise`
IsYamlStorage(name) == IsLiteral(name, "YamlStorage")

\* RepositoryCfg.butlerWrite(obj, butlerLocation)
RepositoryCfgButlerWrite(fs, obj, name, locations) ==
    IF ~IsYamlStorage(name) THEN [ret |-> NotImplementedError, fs |-> fs]
    ELSE butlerWriteLoop(fs, obj, locations, 1)

\* A slip: the location itself taken as the root.
InjectRoot_WholeLocation(cfg, location) == SetItem(cfg, "root", PathStr(location, FALSE))

\* `cfg['root'] = os.path.dirname(location)`
InjectRoot(cfg, location) == SetItem(cfg, "root", PathStr(dirname(location), FALSE))

\* The loop of butlerRead over the locations, from the i-th on.
RECURSIVE butlerReadLoop(_, _, _, _)
butlerReadLoop(fs, locations, i, ret) ==
    IF i > Len(locations) THEN List(ret)
    ELSE LET path == locString(locations[i])
         IN IF ~IsFile(fs, path) THEN IOError
            ELSE LET cfg == YamlLoad(fs.content[Node(path)].doc)
                 IN butlerReadLoop(fs, locations, i + 1,
                                   Append(ret, InjectRoot(cfg, locations[i])))

\* RepositoryCfg.butlerRead(butlerLocation)
RepositoryCfgButlerRead(fs, name, locations) ==
    IF ~IsYamlStorage(name) THEN NotImplementedError
    ELSE butlerReadLoop(fs, locations, 1, <<>>)

\* The root of the PosixStorage that PosixStorage.makeFromCfg(cfg) makes:
\* CfgHelper.getFuncArgs passes cfg['root'] when cfg has the key, and the
\* default of __init__ is None.
PosixStorageRoot(cfg) == IF "root" \in DOMAIN cfg THEN cfg["root"] ELSE None

InitCfg ==
    /\ parents = [r \in Repo |-> <<>>]
    /\ peers = [r \in Repo |-> <<>>]
    /\ parentJoin = [r \in Repo |-> DefaultJoin]
    /\ mapper = [r \in Repo |-> NoMapper]
    /\ files = EmptyDisk
    /\ call = Idle

butlerWrite ==
    /\ Ready
    /\ \E obj \in Cfgs, name \in StorageNames, locations \in LocationLists :
          LET r == RepositoryCfgButlerWrite(files, obj, name, locations)
          IN /\ Cardinality(DOMAIN r.fs.content) <= MaxFiles
             /\ files' = r.fs
             /\ call' = [op |-> "butlerWrite", obj |-> obj, storageName |-> name,
                         locations |-> locations, ret |-> r.ret]
    /\ UNCHANGED <<parents, peers, parentJoin, mapper>>

butlerRead ==
    /\ Ready
    /\ \E name \in StorageNames, locations \in LocationLists :
          call' = [op |-> "butlerRead", storageName |-> name, locations |-> locations,
                   ret |-> RepositoryCfgButlerRead(files, name, locations)]
    /\ UNCHANGED <<parents, peers, parentJoin, mapper, files>>

NextCfg == butlerWrite \/ butlerRead \/ return

SpecCfg == InitCfg /\ [][NextCfg]_vars

----------------------------------------------------------------------------
(* Materialization: Repository.makeFromCfg and Repository.__init__ *)

NRoots == 2
MaxMakes == 1

\* A key that a cfg does not have.
Absent == [absent |-> TRUE]
HasKey(cfg, k) == k \in DOMAIN cfg /\ cfg[k] # Absent

\* A Repository object that exists already, by its identity.
Instance(id) == [inst |-> id]
IsDict(cfg) == "repository" \in DOMAIN cfg

\* The value of 'parents' or 'peers': one entry that is not in a sequence, a
\* tuple of entries, a list of entries.
Single(e) == [form |-> "single", entry |-> e]
Tuple(es) == [form |-> "tuple", entries |-> es]
PyList(es) == [form |-> "list", entries |-> es]

\* The values of parentJoin a cfg can hold: the supported ones and another.
JoinValues == {Str("left", TRUE), Str("outer", TRUE), Str("inner", TRUE)}

\* A cfg of a repository with a posix storage at a root.
RepoCfg(root, pars, prs, join) ==
    [repository |-> Class("Repository"), access |-> Class("Access"),
     storage |-> Class("PosixStorage"), root |-> [path |-> root],
     parents |-> pars, peers |-> prs, parentJoin |-> join]

\* The entries of 'parents' and 'peers': cfgs without relations, with a good
\* and with an unsupported parentJoin, a cfg with a parent of its own, and a
\* Repository that exists already.
Entries ==
    {RepoCfg(1, Absent, Absent, Absent),
     RepoCfg(NRoots, Absent, Absent, Str("inner", TRUE)),
     RepoCfg(NRoots, Single(RepoCfg(1, Absent, Absent, Str("outer", TRUE))), Absent, Absent),
     Instance(1)}

EntryPairs == {<<a, b>> : a \in Entries, b \in Entries}

ParentsValues ==
    {Absent} \cup {Single(e) : e \in Entries}
             \cup {Tuple(es) : es \in EntryPairs} \cup {PyList(es) : es \in EntryPairs}

PeersValues ==
    {Absent} \cup {Single(e) : e \in Entries} \cup {Tuple(es) : es \in EntryPairs}

\* The cfgs handed to makeFromCfg.
TopCfgs ==
    {RepoCfg(NRoots + 1, pars, prs, join) :
        pars \in ParentsValues, prs \in PeersValues, join \in JoinValues \cup {Absent}}

\* The exceptions of construction.  RuntimeError carries the join mode its
\* message names.
RuntimeError(join) == [tag |-> "raise", type |-> "RuntimeError", parentJoin |-> join]
AttributeError == [tag |-> "raise", type |-> "AttributeError"]

\* The state a materialization runs in: the Repository objects constructed
\* so far (an object's identity is its index), the root directories that
\* exist, the side effects in the order they happened, the exception raised.
Failed(st) == st.err # None
Effect(kind, what) == [kind |-> kind, what |-> what]

\* `raise RuntimeError('...parentJoin:%s not supported...' % (self._parentJoin,
\* Repository._supportedParentJoin))` as the statement was meant: the message
\* names the parentJoin that was passed.
UnsupportedJoinError_Meant(join) == RuntimeError(join)

\* The same statement as it runs: the message is built from
\* self._parentJoin, which __init__ has not assigned yet, so the evaluation
\* of the message raises AttributeError and the RuntimeError is never made.
UnsupportedJoinError(join) == AttributeError

\* `parentJoin in Repository._supportedParentJoin`: by equality.
IsSupportedJoin(join) == join.text \in _supportedParentJoin

\* Repository.__init__(mapper, access, parents, peers, id, parentJoin)
RepositoryInit(st, args) ==
    LET join == IF HasKey(args, "parentJoin") THEN args.parentJoin ELSE DefaultJoin
        obj == [parents |-> IF HasKey(args, "parents") THEN args.parents.ids ELSE <<>>,
                peers |-> IF HasKey(args, "peers") THEN args.peers.ids ELSE <<>>,
                parentJoin |-> join,
                mapper |-> NoMapper]
    IN IF ~IsSupportedJoin(join)
       THEN [st |-> [st EXCEPT !.err = UnsupportedJoinError(join),
                               !.log = Append(@, Effect("raise", UnsupportedJoinError(join)))],
             ret |-> None]
       ELSE [st |-> [st EXCEPT !.objs = Append(@, obj),
                               !.log = Append(@, Effect("Repository", Len(st.objs) + 1))],
             ret |-> Instance(Len(st.objs) + 1)]

\* PosixStorage.__init__(root): `if self.root and not os.path.exists(self.root):
\* os.makedirs(self.root)`
PosixStorageInit(st, root) ==
    IF root # None /\ root.path \notin st.dirs
    THEN [st EXCEPT !.dirs = @ \cup {root.path},
                    !.log = Append(@, Effect("makedirs", root.path))]
    ELSE [st EXCEPT !.log = Append(@, Effect("PosixStorage", root))]

\* PosixStorage.makeFromCfg(cfg): the arguments of __init__ that cfg has.
PosixStorageMakeFromCfg(st, cfg) ==
    PosixStorageInit(st, IF HasKey(cfg, "root") THEN cfg.root ELSE None)

\* Access.makeFromCfg(cfg): the access handle owns the storage backend, which
\* it materializes from cfg['storage'].
AccessMakeFromCfg(st, cfg) ==
    IF HasKey(cfg, "storage") THEN PosixStorageMakeFromCfg(st, cfg) ELSE st

\* A slip: a single entry not made a list of one, and lost.
AsList_SingleDropped(v) == IF v.form = "single" THEN <<>> ELSE v.entries

\* The sequence makeFromCfg loops over for 'parents' or 'peers': a value
\* that is not iterable, or is a dict, becomes a list of one.
AsList(v) == IF v.form = "single" THEN <<v.entry>> ELSE v.entries

RECURSIVE MakeFromCfg(_, _)
RECURSIVE MakeEntries(_, _, _, _)

\* `for i in xrange(len(cfg[key])): cfg[key][i] = Repository.makeFromCfg(cfg[key][i])`
MakeEntries(st, es, i, made) ==
    IF i > Len(es) THEN [st |-> st, ret |-> [ids |-> made]]
    ELSE LET r == MakeFromCfg(st, es[i])
         IN IF Failed(r.st) THEN [st |-> r.st, ret |-> [ids |-> made]]
            ELSE MakeEntries(r.st, es, i + 1, Append(made, r.ret.inst))

\* Repository.makeFromCfg(cfg)
MakeFromCfg(st, cfg) ==
    IF ~IsDict(cfg) THEN [st |-> st, ret |-> cfg]
    ELSE LET s1 == IF HasKey(cfg, "access") THEN AccessMakeFromCfg(st, cfg) ELSE st
             pa == IF HasKey(cfg, "parents") THEN MakeEntries(s1, AsList(cfg.parents), 1, <<>>)
                   ELSE [st |-> s1, ret |-> Absent]
             pe == IF Failed(pa.st) THEN pa
                   ELSE IF HasKey(cfg, "peers") THEN MakeEntries(pa.st, AsList(cfg.peers), 1, <<>>)
                   ELSE [st |-> pa.st, ret |-> Absent]
         IN IF Failed(pe.st) THEN [st |-> pe.st, ret |-> None]
            ELSE RepositoryInit(pe.st, [parents |-> pa.ret, peers |-> pe.ret,
                                        parentJoin |-> cfg.parentJoin])

\* The Repository objects as the state holds them, and back.
Heap ==
    [objs |-> [k \in 1..Len(mapper) |->
                  [parents |-> parents[k], peers |-> peers[k],
                   parentJoin |-> parentJoin[k], mapper |-> mapper[k]]],
     dirs |-> files, log |-> <<>>, err |-> None]

HeapBecomes(st) ==
    /\ parents' = [k \in 1..Len(st.objs) |-> st.objs[k].parents]
    /\ peers' = [k \in 1..Len(st.objs) |-> st.objs[k].peers]
    /\ parentJoin' = [k \in 1..Len(st.objs) |-> st.objs[k].parentJoin]
    /\ mapper' = [k \in 1..Len(st.objs) |-> st.objs[k].mapper]
    /\ files' = st.dirs

\* One Repository exists already; no root directory does.
InitMake ==
    /\ parents = << <<>> >>
    /\ peers = << <<>> >>
    /\ parentJoin = <<DefaultJoin>>
    /\ mapper = <<NoMapper>>
    /\ files = {}
    /\ call = Idle

\* Repository.makeFromCfg(cfg) called by a client.
makeFromCfg ==
    /\ Ready
    /\ Len(mapper) <= MaxMakes
    /\ \E cfg \in TopCfgs \cup {Instance(1)} :
          LET r == MakeFromCfg(Heap, cfg)
          IN /\ HeapBecomes(r.st)
             /\ call' = [op |-> "makeFromCfg", cfg |-> cfg, before |-> Heap,
                         ret |-> IF Failed(r.st) THEN r.st.err ELSE r.ret, log |-> r.st.log]

\* Repository(parentJoin=...) called by a client.
construct ==
    /\ Ready
    /\ Len(mapper) <= MaxMakes
    /\ \E join \in JoinValues \cup {Absent} :
          LET r == RepositoryInit(Heap, [parentJoin |-> join])
          IN /\ HeapBecomes(r.st)
             /\ call' = [op |-> "construct", cfg |-> [parentJoin |-> join], before |-> Heap,
                         ret |-> IF Failed(r.st) THEN r.st.err ELSE r.ret, log |-> r.st.log]

\* The client takes the result of a materialization.
returnMake ==
    /\ ~Ready
    /\ call' = Idle
    /\ UNCHANGED <<parents, peers, parentJoin, mapper, files>>

NextMake == makeFromCfg \/ construct \/ returnMake

SpecMake == InitMake /\ [][NextMake]_vars

----------------------------------------------------------------------------
(* The configuration binder: CfgHelper.getFuncArgs *)

MaxArgs == 3
MaxCfgValue == 2

\* Names of parameters and keys.
ArgNames == {"self", "root", "mapper", "id"}

\* A callable as inspect.getargspec sees it: its declared parameter names in
\* order, the last ndefaults of them with a default value.
ArgSpecs ==
    {[args |-> a, ndefaults |-> n] :
        a \in UNION {SeqsNoDup(ArgNames, k) : k \in 0..MaxArgs}, n \in 0..MaxArgs}
FuncsToBind == {f \in ArgSpecs : f.ndefaults <= Len(f.args)}

\* A mapping: a set of <<key, value>> with one value for a key.
Dicts ==
    {d \in SUBSET (ArgNames \X (1..MaxCfgValue)) :
        \A p \in d, q \in d : p[1] = q[1] => p = q}
DictKeys(d) == {p[1] : p \in d}
DictGet(d, k) == (CHOOSE p \in d : p[1] = k)[2]

\* CfgHelper.defaultArgsToIgnore, and another ignore-set a caller passes.
defaultArgsToIgnore == {"self", "cls"}
IgnoreSets == {defaultArgsToIgnore, {"id"}}

\* `requiredArgs = argSpec.args[:len(argSpec.args) - len(argSpec.defaults)]`,
\* all of argSpec.args when argSpec.defaults is None.
requiredArgs(f) ==
    IF f.ndefaults # 0
    THEN {f.args[k] : k \in 1..(Len(f.args) - f.ndefaults)}
    ELSE Range(f.args)

MissingArgument(arg) == [tag |-> "raise", type |-> "RuntimeError", arg |-> arg]

\* A slip: no parameter is skipped.
IsIgnored_Never(arg, ignoredKeys) == FALSE

\* `if arg in ignoredKeys: continue`
IsIgnored(arg, ignoredKeys) == arg \in ignoredKeys

\* The loop of getFuncArgs over argSpec.args, from the i-th on.
RECURSIVE getFuncArgsLoop(_, _, _, _, _)
getFuncArgsLoop(f, cfg, ignoredKeys, i, ret) ==
    IF i > Len(f.args) THEN [ret |-> [tag |-> "dict", items |-> ret], cfg |-> cfg]
    ELSE LET arg == f.args[i]
         IN IF IsIgnored(arg, ignoredKeys) THEN getFuncArgsLoop(f, cfg, ignoredKeys, i + 1, ret)
            ELSE IF arg \in DictKeys(cfg)
            THEN getFuncArgsLoop(f, cfg, ignoredKeys, i + 1,
                                 {p \in ret : p[1] # arg} \cup {<<arg, DictGet(cfg, arg)>>})
            ELSE IF arg \in requiredArgs(f)
            THEN [ret |-> MissingArgument(arg), cfg |-> cfg]
            ELSE getFuncArgsLoop(f, cfg, ignoredKeys, i + 1, ret)

\* CfgHelper.getFuncArgs(func, cfg, ignoredKeys)
getFuncArgs(f, cfg, ignoredKeys) == getFuncArgsLoop(f, cfg, ignoredKeys, 1, {})

InitBind ==
    /\ parents = [r \in Repo |-> <<>>]
    /\ peers = [r \in Repo |-> <<>>]
    /\ parentJoin = [r \in Repo |-> DefaultJoin]
    /\ mapper = [r \in Repo |-> NoMapper]
    /\ files = NoFiles
    /\ call = Idle

\* CfgHelper.getFuncArgs called on a callable and a mapping.
bind ==
    /\ Ready
    /\ \E f \in FuncsToBind, cfg \in Dicts, ignoredKeys \in IgnoreSets :
          LET r == getFuncArgs(f, cfg, ignoredKeys)
          IN call' = [op |-> "getFuncArgs", func |-> f, cfg |-> cfg, ignoredKeys |-> ignoredKeys,
                      ret |-> r.ret, cfgAfter |-> r.cfg]
    /\ UNCHANGED <<parents, peers, parentJoin, mapper, files>>

NextBind == bind \/ return

SpecBind == InitBind /\ [][NextBind]_vars

----------------------------------------------------------------------------
(* PosixStorage.write, step by step, on one final path *)

NChunks == 2

\* The content of a file: the object it is being written from and how many
\* of the NChunks pieces of its serialization are in the file.
Content(obj, written) == [tag |-> "file", obj |-> obj, written |-> written]
IsComplete(c) == c # None /\ c.written = NChunks

\* The python types written: one that supplies butlerWrite (RepositoryCfg)
\* and one that does not, stored as PickleStorage.
WrittenTypes == {"RepositoryCfg", "TestObject"}

\* `hasattr(pythonType, 'butlerWrite')`
HasButlerWrite(pythonType) == pythonType = "RepositoryCfg"

\* The final path holds a complete file or none; no temporary file.
InitWrite ==
    /\ parents = [r \in Repo |-> <<>>]
    /\ peers = [r \in Repo |-> <<>>]
    /\ parentJoin = [r \in Repo |-> DefaultJoin]
    /\ mapper = [r \in Repo |-> NoMapper]
    /\ files \in {[final |-> c, temp |-> None] : c \in {None} \cup {Content(o, NChunks) : o \in Objects}}
    /\ call = Idle

Writing == call.op = "PosixStorage.write" /\ call.pc = "dumping"

\* PosixStorage.write(butlerLocation, obj) up to the opening of the file.  A
\* type with butlerWrite is handed to it, and RepositoryCfg.butlerWrite opens
\* the final path with mode 'w', which empties it; any other type is written
\* inside `with SafeFilename(locations[0]) as locationString`, to the
\* temporary name.
openForWrite ==
    /\ Ready
    /\ \E pythonType \in WrittenTypes, obj \in Objects :
          /\ call' = [op |-> "PosixStorage.write", pc |-> "dumping", pythonType |-> pythonType,
                      obj |-> obj, previous |-> files.final,
                      target |-> IF HasButlerWrite(pythonType) THEN "final" ELSE "temp"]
          /\ files' = IF HasButlerWrite(pythonType)
                      THEN [files EXCEPT !.final = Content(obj, NChunks - NChunks)]
                      ELSE [files EXCEPT !.temp = Content(obj, NChunks - NChunks)]
    /\ UNCHANGED <<parents, peers, parentJoin, mapper>>

\* yaml.dump / cPickle.dump puts the next piece in the open file.
dumpChunk ==
    /\ Writing
    /\ files[call.target].written < NChunks
    /\ files' = [files EXCEPT ![call.target].written = @ + 1]
    /\ UNCHANGED <<parents, peers, parentJoin, mapper, call>>

\* The dump is done and the file closed; SafeFilename renames the temporary
\* file to the final path.
closeFile ==
    /\ Writing
    /\ files[call.target].written = NChunks
    /\ files' = IF call.target = "temp"
                THEN [final |-> files.temp, temp |-> None]
                ELSE files
    /\ call' = [call EXCEPT !.pc = "done"]
    /\ UNCHANGED <<parents, peers, parentJoin, mapper>>

\* The dump raises in the middle; SafeFilename discards the temporary file,
\* and the error propagates.
dumpRaises ==
    /\ Writing
    /\ files' = [files EXCEPT !.temp = None]
    /\ call' = [call EXCEPT !.pc = "raised"]
    /\ UNCHANGED <<parents, peers, parentJoin, mapper>>

\* The process dies in the middle of the write.
crash ==
    /\ Writing
    /\ call' = [call EXCEPT !.pc = "crashed"]
    /\ UNCHANGED <<parents, peers, parentJoin, mapper, files>>

\* The next write starts from the files as they are, without the temporary
\* file a crash left.
returnWrite ==
    /\ call.op = "PosixStorage.write"
    /\ call.pc # "dumping"
    /\ files' = [files EXCEPT !.temp = None]
    /\ call' = Idle
    /\ UNCHANGED <<parents, peers, parentJoin, mapper>>

NextWrite == openForWrite \/ dumpChunk \/ closeFile \/ dumpRaises \/ crash \/ returnWrite

SpecWrite == InitWrite /\ [][NextWrite]_vars

----------------------------------------------------------------------------
(* The traversal primitives statement by statement, with the call stack *)

MaxDepth == 5

\* Parent or peer lists of any shape, cycles included: a list handed to
\* Repository.__init__ is kept as it is and can be extended afterwards.
AnyEdges == [Repo -> SeqsNoDup(Repo, MaxParents)]

NoEdges == [r \in Repo |-> <<>>]

\* The frame of one doParents or doSelfAndPeers call: the repository it runs
\* on, the position of its loop (0: func on self, in doSelfAndPeers), its ret.
Frame(self, i, ret) == [self |-> self, i |-> i, ret |-> ret]

\* The interpreter ends a recursion deeper than its limit with RuntimeError
\* ('maximum recursion depth exceeded').
RecursionLimit == [tag |-> "raise", type |-> "RuntimeError", depth |-> MaxDepth]

StepIdle == [op |-> "none", pc |-> "idle", m |-> <<>>, stack |-> <<>>, val |-> None, deepest |-> 0]

InitStep ==
    /\ parents \in AnyEdges
    /\ peers \in AnyEdges
    /\ parents = NoEdges \/ peers = NoEdges
    /\ ReachFrom({TopRepo}, parents, peers) = Repo
    /\ parentJoin \in [Repo -> {Str("left", TRUE), Str("outer", TRUE)}]
    /\ \A r \in Repo : parents[r] = <<>> => parentJoin[r] = DefaultJoin
    /\ mapper = [r \in Repo |-> AMapper]
    /\ files = NoFiles
    /\ call = StepIdle

Running == call.op # "none" /\ call.pc = "running"
Returning == call.op # "none" /\ call.pc = "returning"
Finished == call.op # "none" /\ call.pc \in {"returned", "raised"}

Top == call.stack[Len(call.stack)]
Popped == SubSeq(call.stack, 1, Len(call.stack) - 1)
WithTop(frame) == Append(Popped, frame)

\* The call of doParents or doSelfAndPeers itself.
enter ==
    /\ Ready
    /\ \E op \in {"doParents", "doSelfAndPeers"}, f \in RaisingFuncs :
          call' = [op |-> op, pc |-> "running", m |-> f, val |-> None, deepest |-> 1,
                   stack |-> <<Frame(TopRepo, IF op = "doParents" THEN 1 ELSE 0, <<>>)>>]
    /\ UNCHANGED <<parents, peers, parentJoin, mapper, files>>

\* A slip: the loop does not move on to the next parent.
Handle_SameParentAgain(frame, res) == [pc |-> "running", val |-> None, frame |-> frame]

\* What a doParents frame does with res, the result of func on a parent or of
\* the parent's own doParents: `if res is not None: if self._parentJoin is
\* 'left': return res / else: ret.append(res)`, then the next parent.
Handle(frame, res) ==
    IF res # None /\ ReturnsFirst(parentJoin[frame.self])
    THEN [pc |-> "returning", val |-> res, frame |-> frame]
    ELSE [pc |-> "running", val |-> None,
          frame |-> Frame(frame.self, frame.i + 1,
                          IF res # None THEN Append(frame.ret, res) ELSE frame.ret)]

\* One turn of the loop of doParents in the innermost frame: func on the next
\* parent, and the call of the parent's doParents when func returned None.
doParentsStep ==
    /\ Running
    /\ call.op = "doParents"
    /\ Top.i <= Len(parents[Top.self])
    /\ LET parent == parents[Top.self][Top.i]
           res == call.m[parent]
       IN IF Raises(res)
          THEN call' = [call EXCEPT !.pc = "raised", !.val = Raised, !.stack = <<>>]
          ELSE IF SearchesAncestors(res)
          THEN IF Len(call.stack) >= MaxDepth
               THEN call' = [call EXCEPT !.pc = "raised", !.val = RecursionLimit, !.stack = <<>>]
               ELSE call' = [call EXCEPT !.stack = Append(@, Frame(parent, 1, <<>>)),
                                         !.deepest = IF Len(call.stack) + 1 > @
                                                     THEN Len(call.stack) + 1 ELSE @]
          ELSE LET h == Handle(Top, res)
               IN call' = [call EXCEPT !.pc = h.pc, !.val = h.val, !.stack = WithTop(h.frame)]
    /\ UNCHANGED <<parents, peers, parentJoin, mapper, files>>

\* One evaluation of func in doSelfAndPeers: on self, then on the next peer.
doSelfAndPeersStep ==
    /\ Running
    /\ call.op = "doSelfAndPeers"
    /\ Top.i <= Len(peers[Top.self])
    /\ LET on == IF Top.i = 0 THEN Top.self ELSE peers[Top.self][Top.i]
           res == call.m[on]
       IN IF Raises(res)
          THEN call' = [call EXCEPT !.pc = "raised", !.val = Raised, !.stack = <<>>]
          ELSE call' = [call EXCEPT
                           !.stack = WithTop(Frame(Top.self, Top.i + 1, Accumulate(Top.ret, res)))]
    /\ UNCHANGED <<parents, peers, parentJoin, mapper, files>>

\* The loop of the innermost frame is over: `if len(ret) is 0: ret = None`,
\* `return ret`.
loopEnds ==
    /\ Running
    /\ Top.i > (IF call.op = "doParents" THEN Len(parents[Top.self]) ELSE Len(peers[Top.self]))
    /\ call' = [call EXCEPT !.pc = "returning", !.val = NoneIfEmpty(Top.ret)]
    /\ UNCHANGED <<parents, peers, parentJoin, mapper, files>>

\* The innermost frame returns call.val: to the caller of the traversal, or
\* to the doParents frame below, which goes on with it as its res.
frameReturns ==
    /\ Returning
    /\ IF Len(call.stack) = 1
       THEN call' = [call EXCEPT !.pc = "returned", !.stack = <<>>]
       ELSE LET h == Handle(Popped[Len(Popped)], call.val)
            IN call' = [call EXCEPT !.pc = h.pc, !.val = h.val,
                                    !.stack = Append(SubSeq(Popped, 1, Len(Popped) - 1), h.frame)]
    /\ UNCHANGED <<parents, peers, parentJoin, mapper, files>>

afterCall ==
    /\ Finished
    /\ call' = StepIdle
    /\ UNCHANGED <<parents, peers, parentJoin, mapper, files>>

NextStep == enter \/ doParentsStep \/ doSelfAndPeersStep \/ loopEnds \/ frameReturns \/ afterCall

\* A call that can take a step takes it: the interpreter does not stop.
SpecStep ==
    /\ InitStep
    /\ [][NextStep]_vars
    /\ WF_vars(doParentsStep \/ doSelfAndPeersStep \/ loopEnds \/ frameReturns)

----------------------------------------------------------------------------
(* PosixStorage.getMapperClass over directories with _mapper files and *)
(* _parent links *)

NDirs == 3
MaxNameLen == 3

Dirs == 1..NDirs

\* What a _mapper file can hold on its first line.
NameChars == {"m", "."}
MapperNames == UNION {[1..n -> NameChars] : n \in 0..MaxNameLen}

NoMarker == [absent |-> TRUE]
NoLink == 0

\* mapperName.split("."): the pieces between the separators.
RECURSIVE Split(_)
Split(name) ==
    IF \A i \in 1..Len(name) : name[i] # "."
    THEN <<name>>
    ELSE LET k == CHOOSE i \in 1..Len(name) :
                      name[i] = "." /\ \A j \in 1..(i - 1) : name[j] # "."
         IN <<SubSeq(name, 1, k - 1)>> \o Split(SubSeq(name, k + 1, Len(name)))

NoMapperError == [tag |-> "raise", type |-> "RuntimeError", msg |-> "No mapper provided and no _mapper available"]
UnqualifiedError == [tag |-> "raise", type |-> "RuntimeError", msg |-> "Unqualified mapper name"]
ImportFailure == [tag |-> "raise", type |-> "ImportError"]

\* `pkg = importlib.import_module(".".join(components[:-1]))`,
\* `return getattr(pkg, components[-1])`: the class when every piece of the
\* name is a name, an error of the import or of getattr otherwise.
ImportClass(components) ==
    IF \A i \in 1..Len(components) : components[i] # <<>>
    THEN [class |-> components[Len(components)],
          module |-> SubSeq(components, 1, Len(components) - 1)]
    ELSE ImportFailure

\* The statements after the loop: the name is read from the _mapper file of
\* basePath and resolved.
ReadMapperName(fs, basePath) ==
    LET components == Split(fs[basePath].marker.name)
    IN IF Len(components) <= 1 THEN UnqualifiedError ELSE ImportClass(components)

\* os.path.exists(os.path.join(basePath, "_mapper"))
HasMarker(fs, basePath) == fs[basePath].marker # NoMarker

\* os.path.exists(os.path.join(basePath, "_parent"))
HasParentLink(fs, basePath) == fs[basePath].parent # NoLink

\* A slip: the _parent links followed as far as they go, past a _mapper file.
RECURSIVE getMapperClassLoop_FarthestWins(_, _, _)
getMapperClassLoop_FarthestWins(fs, basePath, probed) ==
    LET log == Append(probed, basePath)
    IN IF HasParentLink(fs, basePath)
       THEN getMapperClassLoop_FarthestWins(fs, fs[basePath].parent, log)
       ELSE IF HasMarker(fs, basePath)
       THEN [ret |-> ReadMapperName(fs, basePath), probed |-> log]
       ELSE [ret |-> NoMapperError, probed |-> log]

\* The while loop of getMapperClass from basePath on; probed is the
\* directories looked into so far.
RECURSIVE getMapperClassLoop(_, _, _)
getMapperClassLoop(fs, basePath, probed) ==
    LET log == Append(probed, basePath)
    IN IF HasMarker(fs, basePath)
       THEN [ret |-> ReadMapperName(fs, basePath), probed |-> log]
       ELSE IF HasParentLink(fs, basePath)
       THEN getMapperClassLoop(fs, fs[basePath].parent, log)
       ELSE [ret |-> NoMapperError, probed |-> log]

\* The roots getMapperClass is called with: None, the empty string, a directory.
EmptyRoot == [chars |-> <<>>]
Roots == {None, EmptyRoot} \cup {[dir |-> d] : d \in Dirs}

\* `if not (root): return None`
IsFalsy(root) == root = None \/ root = EmptyRoot

\* PosixStorage.getMapperClass(root)
getMapperClass(fs, root) ==
    IF IsFalsy(root) THEN [ret |-> None, probed |-> <<>>]
    ELSE getMapperClassLoop(fs, root.dir, <<>>)

\* Directories with or without a _mapper file and a _parent link; a link
\* leads to a directory declared later, so every chain is finite.
InitLegacy ==
    /\ parents = [r \in Repo |-> <<>>]
    /\ peers = [r \in Repo |-> <<>>]
    /\ parentJoin = [r \in Repo |-> DefaultJoin]
    /\ mapper = [r \in Repo |-> NoMapper]
    /\ files \in [Dirs -> [marker : {NoMarker} \cup {[name |-> n] : n \in MapperNames},
                           parent : {NoLink} \cup Dirs]]
    /\ \A d \in Dirs : files[d].parent = NoLink \/ files[d].parent > d
    /\ call = Idle

mapperClass ==
    /\ Ready
    /\ \E root \in Roots :
          LET r == getMapperClass(files, root)
          IN call' = [op |-> "getMapperClass", root |-> root, ret |-> r.ret, probed |-> r.probed]
    /\ UNCHANGED <<parents, peers, parentJoin, mapper, files>>

NextLegacy == mapperClass \/ return

SpecLegacy == InitLegacy /\ [][NextLegacy]_vars

----------------------------------------------------------------------------
(* PosixStorage.write and PosixStorage.read over the locations of a *)
(* ButlerLocation, for a python type without butlerWrite and butlerRead *)

NLocs == 3
MaxLocs == 2

Locs == 1..NLocs

\* What ButlerLocation.getLocations() returns: one location or more, the
\* same one twice included.
LocLists == UNION {[1..n -> Locs] : n \in 1..MaxLocs}

\* The storage kinds of read that test os.path.exists themselves.
FileStorages == {"PickleStorage", "ConfigStorage"}

\* A file as cPickle.dump or obj.save leaves it.
StoredFile(name, obj) == [format |-> name, obj |-> obj]

NoSuchFile(i) == [tag |-> "raise", type |-> "RuntimeError", at |-> i]
LoadError(i) == [tag |-> "raise", type |-> "LoadError", at |-> i]

\* A slip: the object written to every location.
RECURSIVE PosixStorageWrite_EveryLocation(_, _, _, _)
PosixStorageWrite_EveryLocation(fs, locations, name, obj) ==
    IF locations = <<>> THEN fs
    ELSE PosixStorageWrite_EveryLocation([fs EXCEPT ![locations[1]] = StoredFile(name, obj)],
                                         Tail(locations), name, obj)

\* PosixStorage.write: `with SafeFilename(locations[0]) as locationString`
\* and the dump of obj in the format of the storage name; no other element
\* of locations is read.
PosixStorageWrite(fs, locations, name, obj) ==
    [fs EXCEPT ![locations[1]] = StoredFile(name, obj)]

\* The loop of PosixStorage.read over the locations, from the i-th on: `if
\* not os.path.exists(...): raise RuntimeError`, the load, results.append.
RECURSIVE posixReadLoop(_, _, _, _, _)
posixReadLoop(fs, locations, name, i, results) ==
    IF i > Len(locations) THEN List(results)
    ELSE LET file == fs[locations[i]]
         IN IF file = None THEN NoSuchFile(i)
            ELSE IF file.format # name THEN LoadError(i)
            ELSE posixReadLoop(fs, locations, name, i + 1, Append(results, file.obj))

\* PosixStorage.read
PosixStorageRead(fs, locations, name) == posixReadLoop(fs, locations, name, 1, <<>>)

InitLoc ==
    /\ parents = [r \in Repo |-> <<>>]
    /\ peers = [r \in Repo |-> <<>>]
    /\ parentJoin = [r \in Repo |-> DefaultJoin]
    /\ mapper = [r \in Repo |-> NoMapper]
    /\ files = [l \in Locs |-> None]
    /\ call = Idle

storageWrite ==
    /\ Ready
    /\ \E locations \in LocLists, name \in FileStorages, obj \in Objects :
          /\ files' = PosixStorageWrite(files, locations, name, obj)
          /\ call' = [op |-> "PosixStorage.write", locations |-> locations, name |-> name,
                      obj |-> obj, before |-> files, ret |-> None]
    /\ UNCHANGED <<parents, peers, parentJoin, mapper>>

storageRead ==
    /\ Ready
    /\ \E locations \in LocLists, name \in FileStorages :
          call' = [op |-> "PosixStorage.read", locations |-> locations, name |-> name,
                   ret |-> PosixStorageRead(files, locations, name)]
    /\ UNCHANGED <<parents, peers, parentJoin, mapper, files>>

\* storage.write(butlerLocation, obj) followed by storage.read(butlerLocation).
writeThenRead ==
    /\ Ready
    /\ \E locations \in LocLists, name \in FileStorages, obj \in Objects :
          LET fs == PosixStorageWrite(files, locations, name, obj)
          IN /\ files' = fs
             /\ call' = [op |-> "write;read", locations |-> locations, name |-> name,
                         obj |-> obj, before |-> files,
                         ret |-> PosixStorageRead(fs, locations, name)]
    /\ UNCHANGED <<parents, peers, parentJoin, mapper>>

NextLoc == storageWrite \/ storageRead \/ writeThenRead \/ return

SpecLoc == InitLoc /\ [][NextLoc]_vars

----------------------------------------------------------------------------
(* Vocabulary of the properties *)

NoPeerEdges == [r \in Repo |-> <<>>]

\* The repositories above r in the parent graph.
Ancestors(r) == ReachFrom(Range(parents[r]), parents, NoPeerEdges)

\* The repositories func was evaluated on by the last call, in order.
Evaluated == [i \in 1..Len(call.ev) |-> call.ev[i].repo]

\* What one top-level parent branch yields to a search started below it: the
\* result of func on the parent or, when that is None, of the search of the
\* parent's own parents.
Branch(p, f) == IF f[p] # None THEN f[p] ELSE doParents(p, f).ret

RECURSIVE Compact(_)
Compact(s) ==
    IF s = <<>> THEN <<>>
    ELSE IF s[1] = None THEN Compact(Tail(s)) ELSE <<s[1]>> \o Compact(Tail(s))

\* The non-None branch results of the parents of r, in declared order.
BranchResults(r, f) == Compact([i \in 1..Len(parents[r]) |-> Branch(parents[r][i], f)])

\* The ancestors of the repository of the last call on which func yields a result.
Yielding == {r \in Ancestors(call.self) : call.m[r] # None}

----------------------------------------------------------------------------
(* C1 *)

\* Every join mode of the graph was given as a literal of the program.
LiteralJoins == \A r \in Repo : parentJoin[r].interned

\* C1: a parent search started at a repository whose join mode is 'left', in
\* a graph where exactly one repository yields a non-None result, returns
\* exactly that result (not wrapped in a list), and the matching repository
\* is the last one evaluated: no repository after it in depth-first declared
\* order is evaluated.  Stated for graphs whose join modes are literals.
C1_LeftSearchReturnsTheOnlyMatch ==
    (/\ call.op = "doParents"
     /\ LiteralJoins
     /\ EqLiteral(parentJoin[call.self], "left")
     /\ Cardinality(Yielding) = 1)
    => LET k == CHOOSE r \in Yielding : TRUE
       IN /\ call.ret = call.m[k]
          /\ Evaluated[Len(Evaluated)] = k

\* What does hold of the code: when every repository the search passes
\* through holds the literal 'left', the only match is returned as it is and
\* is the last repository evaluated.
C1_HoldsWhenEveryJoinIsLiteralLeft ==
    (/\ call.op = "doParents"
     /\ \A r \in Repo : IsLiteral(parentJoin[r], "left")
     /\ Cardinality(Yielding) = 1)
    => LET k == CHOOSE r \in Yielding : TRUE
       IN /\ call.ret = call.m[k]
          /\ Evaluated[Len(Evaluated)] = k

----------------------------------------------------------------------------
(* C2 *)

----------------------------------------------------------------------------
(* C3 *)

\* C3: doSelfAndPeers with no peers and a None result from self returns None
\* (never an empty list); with a ListLen-element sequence from self and two
\* peers returning None it returns a list of exactly those elements in their
\* order, and the sequence func returned is as it was.
C3_SelfAndPeersNoneAndFlatten ==
    call.op = "doSelfAndPeers" =>
        LET self == call.self
            own == List([k \in 1..ListLen |-> Item(self, k)])
        IN /\ (peers[self] = <<>> /\ call.m[self] = None) => call.ret = None
           /\ (/\ call.m[self] = own
               /\ Len(peers[self]) = 2
               /\ \A i \in 1..2 : call.m[peers[self][i]] = None)
              => /\ call.ret.tag = "list"
                 /\ Len(call.ret.items) = ListLen
                 /\ \A k \in 1..ListLen : call.ret.items[k] = Item(self, k)
                 /\ call.m[self] = own

\* Witness of C3: self returned the sequence, both peers returned None.
C3_Witness ==
    /\ call.op = "doSelfAndPeers"
    /\ Len(peers[call.self]) = 2
    /\ call.m[call.self].tag = "list"
    /\ Len(call.m[call.self].items) = ListLen
    /\ \A i \in 1..2 : call.m[peers[call.self][i]] = None
    /\ call.ret.tag = "list"

----------------------------------------------------------------------------
(* C5 *)

\* What Repository.doMap returns on each repository in the last call.
Mapped == [r \in Repo |-> doMap(r, call.m)]

ReadMap == call.op = "map" /\ ~IsWriteMap(call.w)

\* C5: for a repository D with parents (A, B) and join mode 'left', a
\* read-mode map through D returns the result of the earliest declared
\* branch that yields non-None: B's when A's branch has nothing and B's has,
\* A's when both have, and then B is not consulted.
C5_LeftJoinPriority ==
    (/\ ReadMap
     /\ EqLiteral(parentJoin[call.self], "left")
     /\ Len(parents[call.self]) = 2)
    => LET A == parents[call.self][1]
           B == parents[call.self][2]
           rs == BranchResults(call.self, Mapped)
       IN /\ call.ret = (IF rs = <<>> THEN None ELSE rs[1])
          /\ (Branch(A, Mapped) = None /\ Branch(B, Mapped) # None)
                => call.ret = Branch(B, Mapped)
          /\ (Mapped[A] # None /\ Mapped[B] # None)
                => call.ret = Mapped[A] /\ Evaluated = <<A>>

\* What does hold of the code: the same, for a repository D that holds the
\* literal 'left'.
C5_HoldsForLiteralLeft ==
    (/\ ReadMap
     /\ IsLiteral(parentJoin[call.self], "left")
     /\ Len(parents[call.self]) = 2)
    => LET A == parents[call.self][1]
           B == parents[call.self][2]
           rs == BranchResults(call.self, Mapped)
       IN /\ call.ret = (IF rs = <<>> THEN None ELSE rs[1])
          /\ (Mapped[A] # None /\ Mapped[B] # None)
                => call.ret = Mapped[A] /\ Evaluated = <<A>>

----------------------------------------------------------------------------
(* C9 *)

\* path is a chain of parent edges that starts at repository r.
IsParentChain(path, r) ==
    /\ Len(path) >= 2
    /\ path[1] = r
    /\ \A i \in 1..(Len(path) - 1) : path[i + 1] \in Range(parents[path[i]])

WriteTraversal == call.op = "backup" \/ (call.op = "map" /\ call.w = "kwTrue")

ReadTraversal ==
    \/ call.op \in {"queryMetadata", "getKeys"}
    \/ (call.op = "map" /\ call.w # "kwTrue")

\* C9: a write-mode map and backup evaluate the operation on the repository
\* itself and over its own peer edges only, never over a parent edge; a
\* read-mode map, queryMetadata and getKeys evaluate it only on repositories
\* reached over a chain of parent edges, never on the repository itself and
\* never over a peer edge.
C9_TraversalKindsNeverMixed ==
    /\ WriteTraversal =>
          \A i \in 1..Len(call.ev) :
              LET e == call.ev[i]
              IN \/ e.path = <<call.self>>
                 \/ /\ Len(e.path) = 2
                    /\ e.path[1] = call.self
                    /\ e.repo \in Range(peers[call.self])
    /\ WriteTraversal =>
          \A r \in Ancestors(call.self) \ ({call.self} \cup Range(peers[call.self])) :
              \A i \in 1..Len(Evaluated) : Evaluated[i] # r
    /\ ReadTraversal =>
          \A i \in 1..Len(call.ev) :
              /\ IsParentChain(call.ev[i].path, call.self)
              /\ call.ev[i].repo \in Ancestors(call.self)

\* Witness of C9: a read-mode map that found nothing, issued on a repository
\* that has a peer and a parent which itself has a peer: the parent was
\* evaluated, neither peer was.
C9_Witness ==
    /\ call.op = "map" /\ call.w = "absent"
    /\ \E p \in Range(parents[call.self]), q \in Range(peers[call.self]) :
          /\ p # q
          /\ q \notin Ancestors(call.self)
          /\ call.m[q] # None
          /\ Evaluated = <<p>>
    /\ call.ret = None

\* Second case of C9: a write-mode map on a repository with a parent and a
\* peer, all of which have a mapper that finds a location.
C9_WitnessWrite ==
    /\ call.op = "map" /\ call.w = "kwTrue"
    /\ parents[call.self] # <<>>
    /\ peers[call.self] # <<>>
    /\ \A r \in Repo : call.m[r] # None
    /\ Evaluated = <<call.self>> \o peers[call.self]

----------------------------------------------------------------------------
(* C10 *)

\* C10 as stated: a read-mode map on R evaluates R's own mapper as well as
\* those of its ancestors, so a dataset that only R's own mapper resolves is
\* found by a read through R.
C10_ReadFindsOwnDataset ==
    (/\ ReadMap
     /\ parents[call.self] # <<>>
     /\ Mapped[call.self] # None
     /\ \A r \in Ancestors(call.self) : Mapped[r] = None)
    => call.ret # None

\* C10 as amended: a read-mode map on R evaluates the mappers of R's
\* ancestors only and never R's own, so a dataset that only R's own mapper
\* resolves is not found: the map returns None.
C10_ReadSkipsOwnMapper ==
    ReadMap =>
        /\ \A i \in 1..Len(Evaluated) : Evaluated[i] # call.self
        /\ (\A r \in Ancestors(call.self) : Mapped[r] = None) => call.ret = None

\* Witness of C10: R's own mapper resolves the dataset, no ancestor's does,
\* R has parents, and the read through R returned None.
C10_Witness ==
    /\ ReadMap
    /\ Mapped[call.self] # None
    /\ parents[call.self] # <<>>
    /\ Len(Evaluated) >= 1
    /\ call.ret = None

----------------------------------------------------------------------------
(* C4 *)

\* The repositories a write through repository r fans out to: r, then its peers.
WriteTargets(r) == <<r>> \o peers[r]

\* What a new Butler whose only parent is repository X gets for dataId d.
FreshGet(X, d) ==
    ButlerGet(FreshReaderSearch(X, [r \in Repo |-> doMap(r, MapperOutcomes(d, "absent"))]).ret)

\* C4: a single put against a repository C with peers P1..Pn (every one with
\* a mapper that maps for write) obtains from map(write=True) one location
\* per repository in the order C, P1, .., Pn, each addressed to the root of
\* that repository and carrying that repository, and after the put a new
\* repository whose only parent is any one of C, P1, .., Pn reads the value
\* that was put.
C4_PeerWriteFanOut ==
    call.op = "put" =>
        LET targets == WriteTargets(call.self)
        IN /\ call.mapped.tag = "list"
           /\ Len(call.mapped.items) = Len(targets)
           /\ \A i \in 1..Len(targets) :
                 /\ call.mapped.items[i].root = targets[i]
                 /\ call.mapped.items[i].repository = targets[i]
                 /\ files[targets[i]][call.d] = call.obj
                 /\ FreshGet(targets[i], call.d) = call.obj

\* Witness of C4: a put against a repository with two peers, the value read
\* back through a new repository over the second peer.
C4_Witness ==
    /\ call.op = "put"
    /\ Len(peers[call.self]) = 2
    /\ Len(call.mapped.items) = 3
    /\ FreshGet(peers[call.self][2], call.d) = call.obj

----------------------------------------------------------------------------
(* C6 *)

\* The repository of the last call has exactly the two parents A and B, which
\* have no parents of their own (the topology of TestAggregateParent).
TwoPlainParents ==
    /\ Len(parents[call.self]) = 2
    /\ \A i \in 1..2 : parents[parents[call.self][i]] = <<>>

\* C6: a get through a repository D with join mode 'outer' and parents
\* (A, B): when only B holds the dataset the get yields a one-element list
\* that contains B's object; when both hold it the get fails with
\* MultipleResults that carries exactly two locations, A's then B's.
C6_OuterJoinRead ==
    (/\ call.op = "get"
     /\ EqLiteral(parentJoin[call.self], "outer")
     /\ TwoPlainParents)
    => LET A == parents[call.self][1]
           B == parents[call.self][2]
           d == call.d
       IN /\ (~Exists(A, d) /\ Exists(B, d)) => call.ret = List(<<files[B][d]>>)
          /\ (Exists(A, d) /\ Exists(B, d))
                => /\ call.ret.tag = "MultipleResults"
                   /\ Len(call.ret.locations) = 2
                   /\ call.ret.locations =
                         <<setRepository(FileLocation(A, d), A),
                           setRepository(FileLocation(B, d), B)>>

\* Witness of C6: both parents hold the dataset, with different objects, and
\* the get failed with MultipleResults.
C6_Witness ==
    /\ call.op = "get"
    /\ EqLiteral(parentJoin[call.self], "outer")
    /\ TwoPlainParents
    /\ Exists(parents[call.self][1], call.d)
    /\ Exists(parents[call.self][2], call.d)
    /\ files[parents[call.self][1]][call.d] # files[parents[call.self][2]][call.d]
    /\ call.ret.tag = "MultipleResults"

\* The other case of C6 happens too: only B holds the dataset.
C6_WitnessOnlyB ==
    /\ call.op = "get"
    /\ EqLiteral(parentJoin[call.self], "outer")
    /\ TwoPlainParents
    /\ ~Exists(parents[call.self][1], call.d)
    /\ Exists(parents[call.self][2], call.d)
    /\ call.ret.tag = "list"

----------------------------------------------------------------------------
(* C7 *)

\* A read through the Butler: of a repository of the graph or of a new one.
ButlerRead == call.op \in {"get", "getFresh"}

\* C7: in the parent search of a read, a repository is evaluated through a
\* parent P only when the operation yielded None on P (under either join
\* mode): every repository strictly between the searching repository and the
\* evaluated one on the path of an evaluation yielded None.  Consequently a
\* read through a repository whose only parent is B, when B holds the
\* dataset, returns B's object whatever B's ancestors hold: B's newer value
\* and never the older value of B's parent A.
C7_ParentMasking ==
    ButlerRead =>
        /\ \A k \in 1..Len(call.ev) :
              LET path == call.ev[k].path
              IN \A i \in 2..(Len(path) - 1) : Mapped[path[i]] = None
        /\ (call.op = "getFresh" /\ Exists(call.self, call.d))
              => call.ret = files[call.self][call.d]
        /\ (/\ call.op = "get"
            /\ Len(parents[call.self]) = 1
            /\ Exists(parents[call.self][1], call.d))
              => LET own == files[parents[call.self][1]][call.d]
                 IN call.ret = (IF ReturnsFirst(parentJoin[call.self])
                                THEN own ELSE List(<<own>>))

\* Witness of C7: A is the parent of B, A holds an older object and B a
\* different one, and a new repository whose only parent is B read B's.
C7_Witness ==
    /\ call.op = "getFresh"
    /\ parents[call.self] # <<>>
    /\ LET A == parents[call.self][1]
       IN /\ Exists(A, call.d)
          /\ Exists(call.self, call.d)
          /\ files[A][call.d] # files[call.self][call.d]
          /\ call.ret = files[call.self][call.d]

----------------------------------------------------------------------------
(* C8 *)

\* The last call was a butlerRead that returned (it did not raise).
ReadBack == call.op = "butlerRead" /\ call.ret.tag = "list"

\* C8: a cfg written by butlerWrite to a location L and read back from L by
\* butlerRead is, for each location read, a cfg equal to the written one with
\* its 'root' entry set to the directory portion of L; the PosixStorage
\* reconstructed from it has that root, which names the existing directory
\* that holds the written file.
C8_DescriptorRoundTrip ==
    ReadBack =>
        /\ Len(call.ret.items) = Len(call.locations)
        /\ \A i \in 1..Len(call.locations) :
              LET L == call.locations[i]
                  written == files.content[Node(locString(L))].obj
                  cfg == call.ret.items[i]
              IN /\ PyEq(cfg, SetItem(written, "root", PathStr(dirname(L), FALSE)))
                 /\ \A k \in DOMAIN written \ {"root"} : YamlScalar(cfg[k]) = YamlScalar(written[k])
                 /\ PosixStorageRoot(cfg).chars = dirname(L)
                 /\ Node(PosixStorageRoot(cfg).chars) = ParentNode(Node(locString(L)))
                 /\ IsDir(files, PosixStorageRoot(cfg).chars)

\* Witness of C8: a cfg written without a root into a directory that
\* butlerWrite had to make was read back with the root of that directory.
C8_Witness ==
    /\ ReadBack
    /\ LET L == call.locations[1]
           written == files.content[Node(L)].obj
       IN /\ "root" \notin DOMAIN written
          /\ Len(Components(L)) = 2
          /\ call.ret.items[1]["root"].chars = dirname(L)
          /\ Len(dirname(L)) >= 1

\* The round trip happens too for a cfg that was written with a root of its
\* own: the root read back is the directory of the location.
C8_WitnessRootReplaced ==
    /\ ReadBack
    /\ LET L == call.locations[1]
           written == files.content[Node(L)].obj
       IN /\ "root" \in DOMAIN written
          /\ written["root"].chars # dirname(L)
          /\ call.ret.items[1]["root"].chars = dirname(L)

----------------------------------------------------------------------------
(* C11 *)

\* What a parent search for the default level would return in the last call.
DefaultLevelByParentSearch ==
    doParents(call.self, [r \in Repo |-> IF mapper[r] = NoMapper THEN None ELSE call.m[r]])

\* C11: the result of getMapperDefaultLevel is the result of evaluating
\* getDefaultLevel over the parents of the repository in declared depth-first
\* order with its join mode, as queryMetadata and getKeys do, not the result
\* of the repository's own mapper alone.
C11_DefaultLevelByParentSearch ==
    call.op = "getMapperDefaultLevel" =>
        /\ call.ret = DefaultLevelByParentSearch.ret
        /\ call.ev = DefaultLevelByParentSearch.ev

\* C11 as the code has it: getMapperDefaultLevel returns what the mapper of
\* the repository itself returns, None when it has no mapper, and evaluates
\* nothing on any other repository.
C11_DefaultLevelOfOwnMapper ==
    call.op = "getMapperDefaultLevel" =>
        /\ call.ret = (IF mapper[call.self] = NoMapper THEN None ELSE call.m[call.self])
        /\ \A k \in 1..Len(call.ev) : call.ev[k].repo = call.self

\* Witness of C11: the repository and its first parent both have mappers with
\* a default level, and the level returned is the repository's own.
C11_Witness ==
    /\ call.op = "getMapperDefaultLevel"
    /\ parents[call.self] # <<>>
    /\ call.m[call.self] # None
    /\ call.m[parents[call.self][1]] # None
    /\ call.ret = call.m[call.self]
    /\ call.ret # DefaultLevelByParentSearch.ret

----------------------------------------------------------------------------
(* C12 *)

\* The step is a Repository.write or a Repository.read.
WriteStep == Ready /\ call'.op = "write"
ReadStep == Ready /\ call'.op = "read"

\* C12: Repository.write on a repository C goes through the access handle of
\* C only and changes only the storage of C: the dataset is in C afterwards
\* and the storage of every other repository, every peer and every parent of
\* C among them, is as it was.  Repository.read on C goes through the access
\* handle of C only and returns what the storage of C holds, failing when C
\* does not hold the dataset whatever its parents hold.
C12_WriteReadOwnAccessOnly ==
    [][/\ WriteStep =>
            /\ call'.ev = <<Event(<<call'.self>>, "access")>>
            /\ files'[call'.self][call'.d] = call'.obj
            /\ \A r \in Repo \ {call'.self} : files'[r] = files[r]
       /\ ReadStep =>
            /\ call'.ev = <<Event(<<call'.self>>, "access")>>
            /\ files' = files
            /\ call'.ret = (IF files[call'.self][call'.d] = None THEN Raised
                            ELSE List(<<files[call'.self][call'.d]>>))]_vars

\* Witness of C12: a write on a repository that has a peer and a parent left
\* both without the dataset.
C12_Witness ==
    /\ call.op = "write"
    /\ peers[call.self] # <<>>
    /\ parents[call.self] # <<>>
    /\ files[call.self][call.d] = call.obj
    /\ files[peers[call.self][1]][call.d] = None
    /\ files[parents[call.self][1]][call.d] = None

\* The read case of C12 happens too: the repository does not hold the
\* dataset, its parent does, and the read failed.
C12_WitnessRead ==
    /\ call.op = "read"
    /\ parents[call.self] # <<>>
    /\ files[call.self][call.d] = None
    /\ files[parents[call.self][1]][call.d] # None
    /\ call.ret = Raised

----------------------------------------------------------------------------
(* C13 *)

\* The locations in a result of map: the result itself, or the elements of
\* the list it is, lists in it included.
RECURSIVE Locations(_)
Locations(v) ==
    IF v = None \/ v = Raised THEN {}
    ELSE IF v.tag = "list"
    THEN UNION {Locations(v.items[i]) : i \in 1..Len(v.items)}
    ELSE {v}

\* C13: every location that map returns, in read or in write mode, found at
\* any depth of the parent search or on any peer, carries the repository
\* whose mapper produced it, not the repository map was called on; a
\* repository without a mapper, or whose mapper returned None, has no
\* location in the result.
C13_LocationCarriesItsRepository ==
    call.op = "map" =>
        /\ \A loc \in Locations(call.ret) :
              /\ loc.repository = loc.mapper
              /\ mapper[loc.mapper] # NoMapper
              /\ call.m[loc.mapper] # None
        /\ \A r \in Repo :
              (mapper[r] = NoMapper \/ call.m[r] = None)
                 => \A loc \in Locations(call.ret) : loc.mapper # r /\ loc.repository # r

\* Witness of C13: a read-mode map found the location two parent edges above
\* the repository it was called on, and the location carries that ancestor.
C13_Witness ==
    /\ call.op = "map"
    /\ ~IsWriteMap(call.w)
    /\ \E k \in 1..Len(call.ev) :
          /\ Len(call.ev[k].path) = 3
          /\ \E loc \in Locations(call.ret) :
                /\ loc.repository = call.ev[k].repo
                /\ loc.repository # call.self

\* The peer case of C13 happens too: a write-mode map returned the location
\* of a peer, which carries the peer.
C13_WitnessPeer ==
    /\ call.op = "map"
    /\ IsWriteMap(call.w)
    /\ peers[call.self] # <<>>
    /\ \E loc \in Locations(call.ret) : loc.repository = peers[call.self][1]

----------------------------------------------------------------------------
(* C14 *)

\* The last call was a makeFromCfg that returned a Repository.
Materialized == call.op = "makeFromCfg" /\ "inst" \in DOMAIN call.ret

\* The entries a value of 'parents' or 'peers' declares, in declared order.
Declared(cfg, key) ==
    IF ~HasKey(cfg, key) THEN <<>>
    ELSE IF cfg[key].form = "single" THEN <<cfg[key].entry>>
    ELSE cfg[key].entries

\* The Repository object id is what entry e declares: e itself when e is a
\* Repository already, else an object constructed by the call whose parents
\* and peers are, one for one and in order, what the entries of e declare.
RECURSIVE IsMadeFrom(_, _)
IsMadeFrom(id, e) ==
    IF ~IsDict(e) THEN id = e.inst
    ELSE /\ id > Len(call.before.objs)
         /\ id <= Len(mapper)
         /\ parentJoin[id] = (IF HasKey(e, "parentJoin") THEN e.parentJoin ELSE DefaultJoin)
         /\ Len(parents[id]) = Len(Declared(e, "parents"))
         /\ \A i \in 1..Len(parents[id]) : IsMadeFrom(parents[id][i], Declared(e, "parents")[i])
         /\ Len(peers[id]) = Len(Declared(e, "peers"))
         /\ \A i \in 1..Len(peers[id]) : IsMadeFrom(peers[id][i], Declared(e, "peers")[i])

\* C14: makeFromCfg of a Repository returns that Repository and constructs
\* nothing; makeFromCfg of a cfg returns a Repository whose parents (and
\* peers) are as many as the entries of 'parents' (and 'peers') and in their
\* order, a single entry that is not in a sequence counting as a sequence of
\* one, and an entry that is a Repository already being that very parent.
C14_MaterializationKeepsOrder ==
    Materialized =>
        /\ IsMadeFrom(call.ret.inst, call.cfg)
        /\ ~IsDict(call.cfg)
              => /\ call.ret = call.cfg
                 /\ Len(mapper) = Len(call.before.objs)
                 /\ files = call.before.dirs
                 /\ call.log = <<>>

\* Witness of C14: two parents in a tuple, a cfg with a parent of its own
\* then a Repository that existed, and one peer that is not in a sequence.
C14_Witness ==
    /\ Materialized
    /\ IsDict(call.cfg)
    /\ HasKey(call.cfg, "parents")
    /\ call.cfg.parents.form = "tuple"
    /\ IsDict(call.cfg.parents.entries[1])
    /\ HasKey(call.cfg.parents.entries[1], "parents")
    /\ call.cfg.parents.entries[2] = Instance(1)
    /\ HasKey(call.cfg, "peers")
    /\ call.cfg.peers.form = "single"
    /\ Len(parents[call.ret.inst]) = 2
    /\ parents[call.ret.inst][2] = 1
    /\ Len(peers[call.ret.inst]) = 1

\* The pass-through case of C14 happens too.
C14_WitnessPassThrough ==
    /\ Materialized
    /\ call.cfg = Instance(1)
    /\ call.ret = Instance(1)

----------------------------------------------------------------------------
(* C15 *)

\* The last construction raised; the type of the exception is t.
ConstructionRaised == call.op \in {"construct", "makeFromCfg"} /\ "type" \in DOMAIN call.ret
ConstructionRaisedA(t) == ConstructionRaised /\ call.ret.type = t

\* The parentJoin the last construction was asked for is not a supported one.
AskedUnsupportedJoin ==
    /\ call.op \in {"construct", "makeFromCfg"}
    /\ HasKey(call.cfg, "parentJoin")
    /\ call.cfg.parentJoin.text \notin {"left", "outer"}

\* The last construction was asked for 'left', 'outer' or no parentJoin.
AskedSupportedJoin ==
    /\ call.op = "construct"
    /\ ~(HasKey(call.cfg, "parentJoin") /\ call.cfg.parentJoin.text \notin {"left", "outer"})

\* C15: constructing or materializing a Repository whose parentJoin is not
\* 'left' or 'outer' fails with the configuration error that describes the
\* unsupported join mode (the RuntimeError of __init__, whose message names
\* it) and produces no Repository for it; with 'left', 'outer' or no
\* parentJoin the construction succeeds.
C15_UnsupportedJoinIsConfigurationError ==
    /\ (AskedUnsupportedJoin /\ call.op = "construct")
          => /\ call.ret = RuntimeError(call.cfg.parentJoin)
             /\ Len(mapper) = Len(call.before.objs)
    /\ (AskedUnsupportedJoin /\ call.op = "makeFromCfg")
          => ConstructionRaisedA("RuntimeError")
    /\ AskedSupportedJoin
          => /\ "inst" \in DOMAIN call.ret
             /\ Len(mapper) = Len(call.before.objs) + 1

\* What does hold of the code: an unsupported parentJoin makes the
\* construction fail, with some exception, and no Repository is produced for
\* it; a supported or absent one makes the constructor succeed.
C15_HoldsAsSomeFailure ==
    /\ (AskedUnsupportedJoin /\ call.op = "construct")
          => /\ ConstructionRaised
             /\ Len(mapper) = Len(call.before.objs)
    /\ (AskedUnsupportedJoin /\ call.op = "makeFromCfg") => ConstructionRaised
    /\ AskedSupportedJoin
          => /\ "inst" \in DOMAIN call.ret
             /\ Len(mapper) = Len(call.before.objs) + 1

----------------------------------------------------------------------------
(* C20 *)

\* The side effects on storage: a backend constructed, a root directory made.
StorageEffects == {k \in 1..Len(call.log) : call.log[k].kind \in {"makedirs", "PosixStorage"}}

\* C20: when a materialization fails on an invalid parentJoin, the error is
\* reported before any storage side effect: no storage backend has been
\* constructed and no root directory has been made by the call.
C20_ConfigurationErrorBeforeIO ==
    (call.op = "makeFromCfg" /\ ConstructionRaised)
        => /\ StorageEffects = {}
           /\ files = call.before.dirs

\* What does hold of the code: the check of parentJoin is the first thing the
\* constructor does, so a constructor called directly fails before it has
\* any effect.
C20_HoldsForTheConstructorAlone ==
    (call.op = "construct" /\ ConstructionRaised)
        => /\ call.log = <<Effect("raise", call.ret)>>
           /\ files = call.before.dirs
           /\ Len(mapper) = Len(call.before.objs)

----------------------------------------------------------------------------
(* C16 *)

\* The declared parameters of the callable of the last call that are not in
\* the ignore-set.
BoundNames == Range(call.func.args) \ call.ignoredKeys

\* Those of them that have no default.
RequiredNames ==
    {call.func.args[k] : k \in 1..(Len(call.func.args) - call.func.ndefaults)} \ call.ignoredKeys

\* C16: getFuncArgs fails, with the error of a missing argument, if and only
\* if a declared parameter without a default that is not in the ignore-set
\* is absent from the mapping; otherwise its result is the mapping restricted
\* to the declared parameter names not in the ignore-set, with the values of
\* the mapping; the mapping is as it was in either case.
C16_BinderRestrictsTheMapping ==
    call.op = "getFuncArgs" =>
        /\ call.ret.tag = "raise" <=> (RequiredNames \ DictKeys(call.cfg) # {})
        /\ call.ret.tag = "raise" =>
              /\ call.ret.type = "RuntimeError"
              /\ call.ret.arg \in RequiredNames \ DictKeys(call.cfg)
        /\ call.ret.tag = "dict" =>
              call.ret.items = {p \in call.cfg : p[1] \in BoundNames}
        /\ call.cfgAfter = call.cfg

\* Witness of C16: the mapping holds a key that is no parameter and the
\* receiver that is ignored; a parameter with a default is absent from it; the
\* result holds the one parameter that is declared and present.
C16_Witness ==
    /\ call.op = "getFuncArgs"
    /\ call.func = [args |-> <<"self", "root", "mapper">>, ndefaults |-> 1]
    /\ call.ignoredKeys = defaultArgsToIgnore
    /\ DictKeys(call.cfg) = {"self", "root", "id"}
    /\ call.ret.tag = "dict"
    /\ DictKeys(call.ret.items) = {"root"}

\* The failure case of C16 happens too.
C16_WitnessMissing ==
    /\ call.op = "getFuncArgs"
    /\ call.func = [args |-> <<"self", "root", "mapper">>, ndefaults |-> 1]
    /\ call.ignoredKeys = defaultArgsToIgnore
    /\ DictKeys(call.cfg) = {"mapper"}
    /\ call.ret = MissingArgument("root")

----------------------------------------------------------------------------
(* C17 *)

\* C17: in every state, the middle of a write and the states after a raised
\* error or a crash included, the final path holds its previous content or
\* the complete new content, never a partly written file; this for every
\* python type, those that supply butlerWrite included.
C17_WriteIsAtomic ==
    call.op = "PosixStorage.write" =>
        \/ files.final = call.previous
        \/ files.final = Content(call.obj, NChunks)

\* What does hold of the code: the same, for the types that do not supply
\* butlerWrite, which are written under SafeFilename.
C17_HoldsUnderSafeFilename ==
    (call.op = "PosixStorage.write" /\ ~HasButlerWrite(call.pythonType)) =>
        \/ files.final = call.previous
        \/ files.final = Content(call.obj, NChunks)

\* The case of C17_HoldsUnderSafeFilename happens: the dump of a pickle
\* raised after its first piece and the final path kept its previous file.
C17_WitnessSafe ==
    /\ call.op = "PosixStorage.write"
    /\ ~HasButlerWrite(call.pythonType)
    /\ call.pc = "raised"
    /\ IsComplete(files.final)
    /\ files.final.obj # call.obj

----------------------------------------------------------------------------
(* C18 *)

\* The last call was one of the two traversal primitives.
Traversed == call.op \in {"doParents", "doSelfAndPeers"}

\* The positions of the evaluations of the last call on which func raised.
RaisedAt == {i \in 1..Len(call.ev) : call.m[call.ev[i].repo] = Raised}

\* C18: when func raises on a repository during a parent search or a peer
\* fan-out, that evaluation is the last one (no repository later in traversal
\* order is evaluated) and the caller gets the error, not the results collected
\* before it; and the caller gets an error only so: after a None or any other
\* return the traversal goes on as it does without errors.
C18_ErrorAbortsTraversal ==
    Traversed =>
        /\ \A i \in RaisedAt : i = Len(call.ev) /\ call.ret = Raised
        /\ call.ret = Raised => RaisedAt # {}

\* The case of C18 in a peer fan-out: the repository yielded a result, its
\* first peer raised, a second peer was never evaluated.
C18_Witness ==
    /\ call.op = "doSelfAndPeers"
    /\ call.ret = Raised
    /\ call.m[call.self] \notin {None, Raised}
    /\ Len(call.ev) = 2
    /\ Len(peers[call.self]) = 2

\* The case of C18 in an outer-join parent search: the first parent yielded
\* a result, the second raised.
C18_WitnessParents ==
    /\ call.op = "doParents"
    /\ call.ret = Raised
    /\ ~ReturnsFirst(parentJoin[call.self])
    /\ Len(parents[call.self]) = 2
    /\ call.m[parents[call.self][1]] \notin {None, Raised}
    /\ call.m[parents[call.self][2]] = Raised

\* The case of C18 below a None: the parent returned None, the search went on
\* to the grandparent, which raised.
C18_WitnessDeep ==
    /\ call.op = "doParents"
    /\ call.ret = Raised
    /\ Len(call.ev) >= 2
    /\ call.m[call.ev[1].repo] = None
    /\ Len(call.ev[Len(call.ev)].path) = 3

----------------------------------------------------------------------------
(* C19 *)

\* The last call was a butlerWrite that returned (it did not raise).
Wrote == call.op = "butlerWrite" /\ call.ret = None

\* The document stored at location L.
Document(L) == files.content[Node(locString(L))].doc

\* C19: after a butlerWrite that completed, the document stored at each write
\* location holds a 'root' entry equal to the directory portion of that
\* location, put there by the write, beside the entries of the written cfg.
C19_RootInjectedAtWrite ==
    Wrote =>
        \A i \in 1..Len(call.locations) :
            LET L == call.locations[i]
            IN /\ "root" \in DOMAIN Document(L)
               /\ Document(L)["root"] = [chars |-> dirname(L)]
               /\ \A k \in DOMAIN call.obj \ {"root"} : Document(L)[k] = YamlScalar(call.obj[k])

\* C19 as the code has it: the stored document is the serialization of the
\* cfg as it was passed to butlerWrite, with no entry added or changed (it
\* has a 'root' only when the cfg had one, and then that one); the root equal
\* to the directory portion of the location is set by butlerRead on the cfg
\* it returns, whatever the document holds.
C19_RootInjectedAtRead ==
    /\ Wrote => \A i \in 1..Len(call.locations) :
                    Document(call.locations[i]) = YamlDump(call.obj)
    /\ ReadBack => \A i \in 1..Len(call.locations) :
                    LET L == call.locations[i]
                    IN /\ call.ret.items[i]["root"].chars = dirname(L)
                       /\ \A k \in DOMAIN Document(L) \ {"root"} :
                             YamlScalar(call.ret.items[i][k]) = Document(L)[k]

\* The case of C19: a cfg without a root was written below a directory, and
\* the stored document has no root.
C19_Witness ==
    /\ Wrote
    /\ "root" \notin DOMAIN call.obj
    /\ Len(dirname(call.locations[1])) >= 1
    /\ "root" \notin DOMAIN Document(call.locations[1])

\* The read side of C19: a document without a root was read back with one.
C19_WitnessRead ==
    /\ ReadBack
    /\ "root" \notin DOMAIN Document(call.locations[1])
    /\ call.ret.items[1]["root"].chars = dirname(call.locations[1])
    /\ Len(dirname(call.locations[1])) >= 1

----------------------------------------------------------------------------
(* C21 *)

\* The depth-first pre-order of the parent graph above the last repository
\* of path, following declared parent order, as the chains of repositories
\* from the start of path: first parent, what is above the first parent,
\* then the second parent, and so on.
RECURSIVE PreOrderFrom(_, _)
PreOrderFrom(path, i) ==
    LET r == path[Len(path)]
    IN IF i > Len(parents[r]) THEN <<>>
       ELSE LET ppath == Append(path, parents[r][i])
            IN <<ppath>> \o PreOrderFrom(ppath, 1) \o PreOrderFrom(path, i + 1)

PreOrder(r) == PreOrderFrom(<<r>>, 1)

\* The chains by which the evaluations of the last call were reached, in order.
EvaluatedPaths == [i \in 1..Len(call.ev) |-> call.ev[i].path]

\* The place of a chain in a sequence of distinct chains.
IndexIn(s, x) == CHOOSE k \in 1..Len(s) : s[k] = x

\* C21: when every evaluation of a parent search yields None, func is
\* evaluated on exactly the depth-first pre-order of the parent graph in
\* declared parent order; the repository the search started at is not
\* evaluated; and whatever the results, the evaluations are a part of that
\* pre-order in its order (results stop the search or skip a subtree, they
\* never reorder it).
C21_VisitOrderIsPreOrder ==
    call.op = "doParents" =>
        LET pre == PreOrder(call.self)
        IN /\ (\A r \in Ancestors(call.self) : call.m[r] = None) => EvaluatedPaths = pre
           /\ \A i \in 1..Len(call.ev) : call.ev[i].repo # call.self
           /\ \A i \in 1..Len(call.ev) : \E k \in 1..Len(pre) : pre[k] = EvaluatedPaths[i]
           /\ \A i, j \in 1..Len(call.ev) :
                 i < j => IndexIn(pre, EvaluatedPaths[i]) < IndexIn(pre, EvaluatedPaths[j])

\* The case of C21: all None over two parents, the first with a parent of its
\* own: the grandparent was evaluated between the two parents.
C21_Witness ==
    /\ call.op = "doParents"
    /\ \A r \in Ancestors(call.self) : call.m[r] = None
    /\ Len(parents[call.self]) = 2
    /\ parents[parents[call.self][1]] # <<>>
    /\ Len(call.ev) >= 3
    /\ call.ev[2].path = <<call.self, parents[call.self][1], parents[parents[call.self][1]][1]>>
    /\ call.ret = None

----------------------------------------------------------------------------
(* C22 *)

\* What one result gives to the result of a fan-out: nothing for None, its
\* elements for a sequence, itself for anything else.
Contribution(res) ==
    IF res = None THEN <<>>
    ELSE IF res.tag = "list" THEN res.items
    ELSE <<res>>

RECURSIVE Concatenation(_, _)
Concatenation(visited, f) ==
    IF visited = <<>> THEN <<>>
    ELSE Contribution(f[visited[1]]) \o Concatenation(Tail(visited), f)

\* C22: a peer fan-out evaluates func once on the repository itself and then
\* once on each declared peer in declared order, whatever the earlier
\* evaluations returned, and on no other repository; its result is the
\* concatenation in that order of the non-None results, a sequence giving its
\* elements and any other result itself (None when that concatenation is
\* empty).
C22_FanOutVisitsSelfThenPeers ==
    call.op = "doSelfAndPeers" =>
        LET visited == <<call.self>> \o peers[call.self]
            all == Concatenation(visited, call.m)
        IN /\ Evaluated = visited
           /\ IF all = <<>> THEN call.ret = None ELSE call.ret = List(all)

\* The case of C22: the repository itself yielded one object, its first peer
\* a sequence, its second peer (which has a peer of its own or is a parent's
\* child) was still evaluated.
C22_Witness ==
    /\ call.op = "doSelfAndPeers"
    /\ Len(peers[call.self]) = 2
    /\ call.m[call.self] = Item(call.self, 0)
    /\ call.m[peers[call.self][1]].tag = "list"
    /\ Len(call.m[peers[call.self][1]].items) = ListLen
    /\ call.m[peers[call.self][2]] = Item(peers[call.self][2], 0)
    /\ peers[peers[call.self][1]] # <<>>
    /\ Len(call.ev) = 3
    /\ Len(call.ret.items) = ListLen + 2

----------------------------------------------------------------------------
(* C23 *)

\* The last call was an outer-join parent search that returned a list.
OuterList ==
    /\ call.op = "doParents"
    /\ EqLiteral(parentJoin[call.self], "outer")
    /\ call.ret.tag = "list"

\* C23: every element of the list an outer-join parent search returns is the
\* result of func on one of the declared parents of the repository itself;
\* none is a result that came from a grandparent or a more distant ancestor.
C23_OuterListHoldsFirstLevelOnly ==
    OuterList =>
        \A k \in 1..Len(call.ret.items) :
            \E i \in 1..Len(parents[call.self]) :
                /\ call.m[parents[call.self][i]] # None
                /\ call.ret.items[k] = call.m[parents[call.self][i]]

\* What does hold of the code: the list holds first-level results only when
\* every parent on which func returned None has no parents of its own.
C23_HoldsBelowBareParents ==
    (/\ OuterList
     /\ \A i \in 1..Len(parents[call.self]) :
           call.m[parents[call.self][i]] = None => parents[parents[call.self][i]] = <<>>)
    => \A k \in 1..Len(call.ret.items) :
            \E i \in 1..Len(parents[call.self]) :
                /\ call.m[parents[call.self][i]] # None
                /\ call.ret.items[k] = call.m[parents[call.self][i]]

----------------------------------------------------------------------------
(* C24 *)

\* No repository is its own ancestor, or its own peer at any distance.
Acyclic ==
    /\ \A r \in Repo : r \notin ReachFrom(Range(parents[r]), parents, NoPeerEdges)
    /\ \A r \in Repo : r \notin ReachFrom(Range(peers[r]), NoPeerEdges, peers)

\* The number of repositories on the longest parent chain that starts at r,
\* r included (in an acyclic graph).
RECURSIVE LongestChain(_)
LongestChain(r) ==
    IF parents[r] = <<>> THEN 1
    ELSE LET below == {LongestChain(parents[r][i]) : i \in 1..Len(parents[r])}
         IN 1 + (CHOOSE n \in below : \A k \in below : k <= n)

\* The parent search of the last call runs into a cycle: a repository above
\* the start is its own ancestor, and func yields None on every repository
\* above the start, so nothing ends the search before.
SearchMeetsNullCycle ==
    /\ call.op = "doParents"
    /\ \E r \in Ancestors(TopRepo) : r \in Ancestors(r)
    /\ \A r \in Ancestors(TopRepo) : call.m[r] = None

\* The operator doParents / doSelfAndPeers agrees with the statements: the
\* value a finished call on an acyclic graph gave.
StepsAgreeWithOperators ==
    (Finished /\ Acyclic) =>
        call.val = (IF call.op = "doParents" THEN doParents(TopRepo, call.m).ret
                    ELSE doSelfAndPeers(TopRepo, call.m).ret)

C24_WitnessCycle ==
    /\ SearchMeetsNullCycle
    /\ Len(call.stack) = MaxDepth

----------------------------------------------------------------------------
(* C25 *)

\* The directories from d along the _parent links, d first.
RECURSIVE LinkChain(_)
LinkChain(d) ==
    IF files[d].parent = NoLink THEN <<d>> ELSE <<d>> \o LinkChain(files[d].parent)

\* The places in a chain of the directories that hold a _mapper file.
MarkedIn(chain) == {k \in 1..Len(chain) : files[chain[k]].marker # NoMarker}

HasSeparator(name) == \E i \in 1..Len(name) : name[i] = "."

\* C25: getMapperClass returns None for a null or empty root without
\* looking at any directory; otherwise it follows the _parent links from
\* root one at a time and stops at the first directory that holds a _mapper
\* file, whose name it resolves (no directory beyond it is looked at); it
\* fails with RuntimeError when it reaches a directory with neither a _mapper
\* file nor a _parent link, and when the name read has no '.'; it always
\* ends.
C25_LegacyMapperResolution ==
    call.op = "getMapperClass" =>
        IF call.root \in {None, EmptyRoot}
        THEN call.ret = None /\ call.probed = <<>>
        ELSE LET chain == LinkChain(call.root.dir)
                 marked == MarkedIn(chain)
             IN IF marked = {}
                THEN /\ call.ret = NoMapperError
                     /\ call.probed = chain
                ELSE LET k == CHOOSE n \in marked : \A j \in marked : n <= j
                         name == files[chain[k]].marker.name
                     IN /\ call.probed = SubSeq(chain, 1, k)
                        /\ ~HasSeparator(name) => call.ret = UnqualifiedError
                        /\ HasSeparator(name) =>
                              /\ call.ret # UnqualifiedError
                              /\ call.ret # NoMapperError
                              /\ "class" \in DOMAIN call.ret =>
                                    LET n == Len(name) - Len(call.ret.class)
                                    IN /\ SubSeq(name, n + 1, Len(name)) = call.ret.class
                                       /\ name[n] = "."
                                       /\ ~HasSeparator(call.ret.class)

\* The case of C25: the root has no _mapper file, its _parent has one, and so
\* has the _parent of its _parent: the class named by the nearer one came back.
C25_Witness ==
    /\ call.op = "getMapperClass"
    /\ "dir" \in DOMAIN call.root
    /\ Len(LinkChain(call.root.dir)) = 3
    /\ MarkedIn(LinkChain(call.root.dir)) = {2, 3}
    /\ files[LinkChain(call.root.dir)[3]].marker.name = <<"m", ".", ".">>
    /\ "class" \in DOMAIN call.ret
    /\ Len(call.probed) = 2

\* The failures of C25 happen: a chain that ends without a _mapper file.
C25_WitnessNoMapper ==
    /\ call.op = "getMapperClass"
    /\ call.ret = NoMapperError
    /\ Len(call.probed) = 3

----------------------------------------------------------------------------
(* C26 *)

\* The last call searched a chain start -> P -> G on which func found
\* nothing on P and an object on G.
ChainThroughP ==
    /\ call.op = "doParents"
    /\ Len(parents[call.self]) = 1
    /\ Len(parents[parents[call.self][1]]) = 1
    /\ call.m[parents[call.self][1]] = None
    /\ call.m[parents[parents[call.self][1]][1]].tag = "item"

\* What func found on G in such a call.
FoundOnG == call.m[parents[parents[call.self][1]][1]]

\* C26: the ancestors of an intermediate parent P are searched with P's own
\* join mode: a search started at a 'left' repository returns a list holding
\* the match when P is 'outer', and a search started at an 'outer' repository
\* gets the bare match as the one element of its list when P is 'left' (a
\* list in a list when P is 'outer').
C26_JoinModePerNode ==
    ChainThroughP =>
        LET P == parents[call.self][1]
            startLeft == EqLiteral(parentJoin[call.self], "left")
            pLeft == EqLiteral(parentJoin[P], "left")
        IN /\ (startLeft /\ ~pLeft) => call.ret = List(<<FoundOnG>>)
           /\ (startLeft /\ pLeft) => call.ret = FoundOnG
           /\ (~startLeft /\ pLeft) => call.ret = List(<<FoundOnG>>)
           /\ (~startLeft /\ ~pLeft) => call.ret = List(<<List(<<FoundOnG>>)>>)

\* What does hold of the code: the same, with 'left' read as "holds the
\* literal 'left'" (any other accepted join string acts as 'outer').
C26_HoldsForLiteralJoins ==
    ChainThroughP =>
        LET P == parents[call.self][1]
            startLeft == IsLiteral(parentJoin[call.self], "left")
            pLeft == IsLiteral(parentJoin[P], "left")
        IN /\ (startLeft /\ ~pLeft) => call.ret = List(<<FoundOnG>>)
           /\ (startLeft /\ pLeft) => call.ret = FoundOnG
           /\ (~startLeft /\ pLeft) => call.ret = List(<<FoundOnG>>)
           /\ (~startLeft /\ ~pLeft) => call.ret = List(<<List(<<FoundOnG>>)>>)

\* The case of C26_HoldsForLiteralJoins happens: an 'outer' start over a
\* literal 'left' parent got the bare match in its list.
C26_WitnessLiteral ==
    /\ ChainThroughP
    /\ EqLiteral(parentJoin[call.self], "outer")
    /\ IsLiteral(parentJoin[parents[call.self][1]], "left")
    /\ call.ret = List(<<FoundOnG>>)

----------------------------------------------------------------------------
(* C27 *)

\* The objects in a result, in order, whatever lists they are wrapped in.
RECURSIVE Leaves(_)
RECURSIVE LeavesOfItems(_)
LeavesOfItems(items) ==
    IF items = <<>> THEN <<>> ELSE Leaves(items[1]) \o LeavesOfItems(Tail(items))
Leaves(v) ==
    IF v = None THEN <<>>
    ELSE IF v.tag = "list" THEN LeavesOfItems(v.items)
    ELSE <<v>>

\* The evaluations of the last call on repository g.
EvaluationsOn(g) == {i \in 1..Len(call.ev) : call.ev[i].repo = g}

\* The chains of the pre-order above r that end at g.
PathsTo(r, g) == {k \in 1..Len(PreOrder(r)) : PreOrder(r)[k][Len(PreOrder(r)[k])] = g}

\* The repositories above the one the last call searched from.
Above == ReachFrom(Range(parents[call.self]), parents, peers)

\* The last call searched from a repository with two parents P1 and P2 that
\* both have G as their parent; func found nothing on P1 and P2.
SharedAncestor ==
    /\ call.op = "doParents"
    /\ Len(parents[call.self]) = 2
    /\ \A i \in 1..2 : /\ parents[parents[call.self][i]] = <<NShared>>
                       /\ call.m[parents[call.self][i]] = None

----------------------------------------------------------------------------
(* C28 *)

\* func returned None or an empty sequence on the repository of the last
\* call and on each of its peers.
NothingOrEmpty ==
    \A r \in {call.self} \cup Range(peers[call.self]) : call.m[r] \in {None, List(<<>>)}

\* C28: doSelfAndPeers returns None when func returned None or an empty
\* sequence on the repository itself and on every peer, so an empty sequence
\* from func reaches the caller as None does; doSelfAndPeers never returns an
\* empty list.
C28_EmptyResultIsNone ==
    call.op = "doSelfAndPeers" =>
        /\ NothingOrEmpty => call.ret = None
        /\ call.ret # List(<<>>)
        /\ call.ret # None => (call.ret.tag = "list" /\ Len(call.ret.items) >= 1)

\* The case of C28: func returned an empty sequence on the repository itself
\* and on a peer, and the fan-out returned None.
C28_Witness ==
    /\ call.op = "doSelfAndPeers"
    /\ call.m[call.self] = List(<<>>)
    /\ Len(peers[call.self]) >= 1
    /\ call.m[peers[call.self][1]] = List(<<>>)
    /\ NothingOrEmpty
    /\ call.ret = None

----------------------------------------------------------------------------
(* C29 *)

\* The last call was a Repository.map with the write flag passed in some way.
MapCalled == call.op = "map" /\ "d" \in DOMAIN call

\* What doMap gives on each repository in the last call.
MappedFoo == [r \in Repo |-> doMap(r, call.m)]

\* C29: Repository.map uses the peer fan-out exactly when write is passed as
\* a keyword and is the boolean True; with write absent, False, passed as a
\* positional argument or as another true value (1) it uses the parent
\* search, although the mapper still gets the flag as it was passed (for a
\* true flag map_foo gives a location for a file that does not exist).
C29_OnlyKeywordTrueSelectsFanOut ==
    MapCalled =>
        /\ call.w = "kwTrue" =>
              /\ call.ret = doSelfAndPeers(call.self, MappedFoo).ret
              /\ Evaluated = <<call.self>> \o peers[call.self]
        /\ call.w # "kwTrue" =>
              /\ call.ret = doParents(call.self, MappedFoo).ret
              /\ \A i \in 1..Len(call.ev) : call.ev[i].via = "parent"
        /\ \A r \in Repo :
              call.m[r] = map_foo(r, call.d, WriteValue(call.w) \in {"True", "1"})
        /\ \A r \in Repo :
              (call.w \in {"kwTrue", "kwOne", "posTrue"}) => call.m[r] # None
        /\ \A r \in Repo :
              (call.w \in {"absent", "kwFalse"} /\ ~Exists(r, call.d)) => call.m[r] = None

\* The case of C29: write passed as a positional True on a repository with a
\* peer and a parent, no file anywhere: the parent was searched, not the peer,
\* and its mapper, which got the true flag, gave a location.
C29_Witness ==
    /\ MapCalled
    /\ call.w = "posTrue"
    /\ Len(parents[call.self]) = 1
    /\ Len(peers[call.self]) = 1
    /\ parents[call.self] # peers[call.self]
    /\ \A r \in Repo : ~Exists(r, call.d)
    /\ Evaluated = parents[call.self]
    /\ call.ret # None

\* The same with write=1.
C29_WitnessTruthy ==
    /\ MapCalled
    /\ call.w = "kwOne"
    /\ Len(peers[call.self]) >= 1
    /\ Len(parents[call.self]) >= 1
    /\ call.ev[1].via = "parent"
    /\ call.ret # None

----------------------------------------------------------------------------
(* C30 *)

\* The last call wrote: alone, or followed by a read.
WroteLocations == call.op \in {"PosixStorage.write", "write;read"}
ReadLocationsBack == call.op \in {"PosixStorage.read", "write;read"}

\* The places in the locations of the last call whose file is missing or is
\* of another storage kind.
Unreadable ==
    {i \in 1..Len(call.locations) :
        files[call.locations[i]] = None \/ files[call.locations[i]].format # call.name}

\* What write and read do with the locations, which is the same in C30 and in
\* its amended form: write puts the object at the first location and leaves
\* every other file as it was; read returns one item per location in location
\* order, or fails at the first location it cannot read.
WriteFirstReadAll ==
    /\ WroteLocations =>
          /\ files[call.locations[1]] = StoredFile(call.name, call.obj)
          /\ \A l \in Locs : l # call.locations[1] => files[l] = call.before[l]
    /\ ReadLocationsBack =>
          IF Unreadable = {}
          THEN /\ call.ret.tag = "list"
               /\ Len(call.ret.items) = Len(call.locations)
               /\ \A i \in 1..Len(call.locations) :
                     call.ret.items[i] = files[call.locations[i]].obj
          ELSE /\ call.ret.tag = "raise"
               /\ call.ret.at \in Unreadable
               /\ \A i \in Unreadable : call.ret.at <= i

\* C30: write puts the object at the first location only, read returns one
\* item per location in order or fails at the first missing one, so a write
\* followed by a read of the same locations succeeds only when there is one
\* location.
C30_WriteReadAsymmetry ==
    /\ WriteFirstReadAll
    /\ (call.op = "write;read" /\ call.ret.tag = "list") => Len(call.locations) = 1

\* C30 as the code has it: a write followed by a read of the same locations
\* succeeds exactly when every location after the first is the first one
\* again or held a file of the same storage kind before the write; with one
\* location it always succeeds, and the first item is the object written.
C30_ReadSucceedsWhenOthersExist ==
    /\ WriteFirstReadAll
    /\ call.op = "write;read" =>
          /\ call.ret.tag = "list" <=>
                \A i \in 2..Len(call.locations) :
                    \/ call.locations[i] = call.locations[1]
                    \/ /\ call.before[call.locations[i]] # None
                       /\ call.before[call.locations[i]].format = call.name
          /\ Len(call.locations) = 1 => call.ret = List(<<call.obj>>)
          /\ call.ret.tag = "list" => call.ret.items[1] = call.obj

\* The case of C30: a write to two different locations of which the second
\* had no file, and the read failed at the second.
C30_Witness ==
    /\ call.op = "write;read"
    /\ Len(call.locations) = 2
    /\ call.locations[1] # call.locations[2]
    /\ call.before[call.locations[2]] = None
    /\ call.ret = NoSuchFile(2)
    /\ files[call.locations[2]] = None

\* The case the amended form adds: the second location held a file of an
\* earlier write, and the read returned two items.
C30_WitnessSucceeds ==
    /\ call.op = "write;read"
    /\ Len(call.locations) = 2
    /\ call.locations[1] # call.locations[2]
    /\ call.ret.tag = "list"
    /\ Len(call.ret.items) = 2
    /\ call.ret.items[1] # call.ret.items[2]

====
